---------------------------- MODULE Spec2Model ----------------------------
(***************************************************************************)
(* A model of the question-bank pipeline: the structured generation client *)
(* (llm_call.py), the schema (models.py), the verification stage           *)
(* (verify.py), the variation stage (variate.py) and the pipeline          *)
(* controller (main.py).                                                   *)
(*                                                                         *)
(* The module holds several specifications over one set of variables:      *)
(*   SpecGS   one invocation of LLMClient.generate_structured              *)
(*   SpecVar  add_variations_to_chapter applied (repeatedly) to one        *)
(*            ChapterQuestions                                             *)
(*   Spec     main and process_chapter over the discovered chapters        *)
(*   SpecVer  verify_chapter_questions applied to one ChapterQuestions     *)
(*   SpecGV   one call of generate_variations_for_question                 *)
(*   SpecMCQ  validation of one MCQQuestion                                *)
(*   SpecLA   validation of one LongAnswerQuestion                         *)
(*   SpecTQ   validation of the batches of a topic and their merge         *)
(*   SpecCQ   construction and saving of one ChapterQuestions              *)
(*   SpecNorm one call of _normalize_variation_item                        *)
(*   SpecGJ   generate_json beside generate_structured, same responses     *)
(*   SpecClean one call of LLMClient._clean_json_response                  *)
(*   SpecTail the stages of process_chapter after generation               *)
(* Each specification leaves the variables of the others untouched.        *)
(***************************************************************************)
EXTENDS Integers, Sequences, FiniteSets, TLC

VARIABLES
    api_key,        \* GEMINI_API_KEY in the environment: "set" | "missing"
    \* ---- verify_chapter_questions (verify.py 72-137) ----
    ver_doc,        \* questions_data, the document being verified
    ver_files,      \* questions.json and verification_report.json of the chapter
    ver_pos,        \* the topic the loop has come to
    ver_list,       \* topic_verifications
    ver_calls,      \* what each topic's generate_structured call came to
    ver_issues,     \* total_issues
    ver_pc,         \* "idle" | "loop" | "done" | "raised"
    ver_result,     \* the ChapterVerification returned
    \* ---- one call of a function on its own ----
    fn_pc,          \* "idle" | "called" | "returned"
    fn_in,          \* the arguments of the call
    fn_out,         \* what the call returned, or that it raised
    \* ---- add_variations_to_chapter (variate.py 196-281) ----
    special,        \* the questions whose content and calls are left open
    cq,             \* questions_data: the variations of every question
    cq_prev,        \* cq as it was when the current call began
    cq_other,       \* questions_data: the other fields of every question
    v_log,          \* what the model call made for each question in the
                    \* current call came to ("none": no call was made)
    v_pos,          \* the question the loops have come to
    v_run,          \* which call of add_variations_to_chapter this is
    v_state,        \* "idle" | "running" | "done" | "raised"
    v_calls,        \* generate_json invocations of the current call
    \* ---- generate_structured (llm_call.py) ----
    max_retries,    \* the retry budget argument
    attempt,        \* the loop variable of "for attempt in range(max_retries)"
    gs_log,         \* one entry per model call issued: what became of it
    gs_last,        \* the response the returned value was read from
    gs_outcome,     \* "running" | "returned" | "raised"
    gs_result,      \* the returned value (None: the loop fell through)
    gs_error,       \* the error the raised ValueError carries
    \* ---- generate_json (llm_call.py 109-160), given the same responses ----
    gj_attempt,     \* the loop variable of "for attempt in range(max_retries)"
    gj_log,         \* one entry per model call issued: what became of it
    gj_outcome,     \* "idle" | "running" | "returned" | "raised"
    gj_result,      \* the returned value (None: the loop fell through)
    \* ---- process_chapter from line 336 on, given the generated topics ----
    tl_pc,          \* "idle" | "save" | "verify" | "vary" | "end" | "returned" | "raised"
    tl_topics,      \* len(topic_questions)
    tl_events,      \* what has been done so far, in order
    tl_qfile,       \* questions.json: "absent" | "generated" | "content" | "partial"
    tl_variation,   \* add_variations_to_chapter: "none" | "returned" | "raised"
    \* ---- main (main.py 449-504) ----
    root_kind,      \* what folder_path names: "missing" | "file" | "chapter_dir" | "tree"
    found,          \* the chapter directories in the order the search meets them
    chapters,       \* find_chapters_to_process(root_path): sorted
    mainPc,         \* "start" | "loop" | "summary" | "exit1" | "aborted"
    idx,            \* position of the for loop over chapters (1-based)
    processed,      \* the three counters of the summary
    skipped,
    failed,
    invoked,        \* the chapters process_chapter was invoked on, in order
    outcomes,       \* how each of those invocations ended: "True" | "False" | "raised"
    \* ---- process_chapter (main.py 216-420), the current invocation ----
    pc,             \* "idle" | "enter" | "config" | "generate" | "generated"
                    \*        | "returned" | "raised"
    pc_result,      \* the returned bool ("True" | "False"), or None
    qfile,          \* questions.json of the chapter: "absent" | "empty"
                    \*        | "generated" | "content"
    qfile_at_entry, \* qfile when process_chapter was entered
    env,            \* what this chapter's inputs turned out to be when read
    topics_list,    \* number of topics of the matched syllabus entry
    questions_per_level,
    topic_idx,      \* enumerate(topics_list, 1): the topic being generated
    topic_questions,\* number of TopicQuestions appended so far
    stages,         \* the stages this invocation has entered, in order
    model_calls,    \* model calls issued by this invocation
    file_writes     \* files written by this invocation

gsVars == <<max_retries, attempt, gs_log, gs_last, gs_outcome, gs_result, gs_error>>

gjVars == <<gj_attempt, gj_log, gj_outcome, gj_result>>

tailVars == <<tl_pc, tl_topics, tl_events, tl_qfile, tl_variation>>

mainVars == <<root_kind, found, chapters, mainPc, idx, processed, skipped, failed, invoked,
              outcomes>>

fnVars == <<fn_pc, fn_in, fn_out>>

verVars == <<ver_doc, ver_files, ver_pos, ver_list, ver_calls, ver_issues, ver_pc, ver_result>>

varVars == <<special, cq, cq_prev, cq_other, v_log, v_pos, v_run, v_state, v_calls>>

pcVars == <<pc, pc_result, qfile, qfile_at_entry, env, topics_list, questions_per_level,
            topic_idx, topic_questions, stages, model_calls, file_writes>>

vars == <<api_key, gsVars, mainVars, pcVars, varVars, fnVars, verVars, gjVars, tailVars>>

-----------------------------------------------------------------------------
(***************************************************************************)
(* Bounds of the model.                                                    *)
(***************************************************************************)
MaxRetries == 3
MaxTextLen == 3
MaxChapters == 2
MaxTopics == 5

None == "None"
NoError == [attempt |-> 0, cause |-> "none"]

-----------------------------------------------------------------------------
(***************************************************************************)
(* Response texts.  A text is a sequence of tokens; the tokens are the     *)
(* pieces _clean_json_response and the JSON parser tell apart.             *)
(*   TICKS  the three backticks of a markdown fence                        *)
(*   JSONW  the word json                                                  *)
(*   SP NL  a space, a newline (both whitespace for str.strip)             *)
(*   CTL    a control character of [\x00-\x08\x0b-\x1f\x7f-\x9f] that is   *)
(*          not whitespace (e.g. \x00)                                     *)
(*   Ja Jb  a complete JSON document that validates against the schema     *)
(*          (two different values)                                         *)
(*   Js     a complete JSON document that violates the schema              *)
(*   X      text that is no JSON                                           *)
(***************************************************************************)
Tokens == {"TICKS", "JSONW", "SP", "NL", "CTL", "Ja", "Jb", "Js", "X"}

Whitespace == {"SP", "NL"}

Texts == UNION {[1..n -> Tokens] : n \in 0..MaxTextLen}

Drop(s, n) == IF n >= Len(s) THEN <<>> ELSE SubSeq(s, n + 1, Len(s))

RECURSIVE LStrip(_)
LStrip(s) == IF s # <<>> /\ Head(s) \in Whitespace THEN LStrip(Tail(s)) ELSE s

RECURSIVE RStrip(_)
RStrip(s) ==
    IF s # <<>> /\ s[Len(s)] \in Whitespace
    THEN RStrip(SubSeq(s, 1, Len(s) - 1))
    ELSE s

\* str.strip()
Strip(s) == RStrip(LStrip(s))

StartsWith(s, p) == Len(s) >= Len(p) /\ SubSeq(s, 1, Len(p)) = p

EndsWith(s, p) == Len(s) >= Len(p) /\ SubSeq(s, Len(s) - Len(p) + 1, Len(s)) = p

\* A mutant of ScrubControl: control characters are left in the text.
ScrubControl_None(s) == s

\* re.sub(r'[\x00-\x08\x0b-\x1f\x7f-\x9f]', ' ', text)
ScrubControl(s) == [i \in 1..Len(s) |-> IF s[i] = "CTL" THEN "SP" ELSE s[i]]

\* LLMClient._clean_json_response: three independent ifs, then the scrub,
\* then strip.
clean_json_response(text) ==
    LET t1 == IF StartsWith(text, <<"TICKS", "JSONW">>) THEN Drop(text, 2) ELSE text
        t2 == IF StartsWith(t1, <<"TICKS">>) THEN Drop(t1, 1) ELSE t1
        t3 == IF EndsWith(t2, <<"TICKS">>) THEN SubSeq(t2, 1, Len(t2) - 1) ELSE t2
    IN  Strip(ScrubControl(t3))

\* json parsing of a cleaned text: exactly one JSON document.
ParsesAsJson(text) == Len(text) = 1 /\ text[1] \in {"Ja", "Jb", "Js"}

\* A mutant of SchemaValid: every parsed document is taken as valid.
SchemaValid_Any(doc) == TRUE

\* pydantic's validation of a parsed document against response_schema.
SchemaValid(doc) == doc \in {"Ja", "Jb"}

\* response_schema.model_validate_json(text): the validated value, or the
\* class of the error it raises.
model_validate_json(text) ==
    IF ~ParsesAsJson(text) THEN [ok |-> FALSE, cause |-> "json_invalid", value |-> None]
    ELSE IF ~SchemaValid(text[1])
         THEN [ok |-> FALSE, cause |-> "schema_invalid", value |-> None]
         ELSE [ok |-> TRUE, cause |-> "ok", value |-> text[1]]

\* What one model call gives: the call (or response.text) raises, or a text.
Responses ==
    {[raises |-> TRUE, text |-> <<>>]} \cup {[raises |-> FALSE, text |-> t] : t \in Texts}

NoResponse == [raises |-> FALSE, text |-> <<>>]

\* The body of the try block of one attempt (llm_call.py 69-97).
AttemptResult(resp) ==
    IF resp.raises
    THEN [ok |-> FALSE, cause |-> "api_error", value |-> None]
    ELSE model_validate_json(clean_json_response(Strip(resp.text)))

\* "if attempt < max_retries - 1" (llm_call.py 100).
ShouldRetry(a, m) == a < m - 1

\* A mutant of RaisedError: the error of the first failed attempt is kept.
RaisedError_First(log) == [attempt |-> 1, cause |-> log[1].cause]

\* The error ValueError(f"Failed to generate valid response: {e}") carries:
\* e of the current (last logged) attempt.
RaisedError(log) == [attempt |-> Len(log), cause |-> log[Len(log)].cause]

-----------------------------------------------------------------------------
(***************************************************************************)
(* generate_structured: one step per model call.                           *)
(***************************************************************************)
\* The client is not in use.
GSIdle ==
    /\ max_retries = 0
    /\ attempt = 0
    /\ gs_log = <<>>
    /\ gs_last = NoResponse
    /\ gs_outcome = "idle"
    /\ gs_result = None
    /\ gs_error = NoError

\* generate_json is not in use.
GJIdle ==
    /\ gj_attempt = 0
    /\ gj_log = <<>>
    /\ gj_outcome = "idle"
    /\ gj_result = None

\* The later stages of process_chapter are not run on their own.
TailIdle ==
    /\ tl_pc = "idle"
    /\ tl_topics = 0
    /\ tl_events = <<>>
    /\ tl_qfile = "absent"
    /\ tl_variation = "none"

\* main has not been started.
MainIdle ==
    /\ root_kind = "missing"
    /\ found = <<>>
    /\ chapters = <<>>
    /\ mainPc = "idle"
    /\ idx = 0
    /\ processed = 0
    /\ skipped = 0
    /\ failed = 0
    /\ invoked = <<>>
    /\ outcomes = <<>>

\* verify_chapter_questions is not in use.
VerIdle ==
    /\ ver_doc = <<>>
    /\ ver_files = <<>>
    /\ ver_pos = 0
    /\ ver_list = <<>>
    /\ ver_calls = <<>>
    /\ ver_issues = 0
    /\ ver_pc = "idle"
    /\ ver_result = <<>>

\* No function is called on its own.
FnIdle ==
    /\ fn_pc = "idle"
    /\ fn_in = <<>>
    /\ fn_out = <<>>

\* add_variations_to_chapter is not in use.
VarIdle ==
    /\ special = {}
    /\ cq = <<>>
    /\ cq_prev = <<>>
    /\ cq_other = <<>>
    /\ v_log = <<>>
    /\ v_pos = 0
    /\ v_run = 0
    /\ v_state = "idle"
    /\ v_calls = 0

NoEnv == [config |-> "unread", extract |-> "unread"]

\* No invocation of process_chapter is under way.
PCIdle ==
    /\ pc = "idle"
    /\ pc_result = None
    /\ qfile = "absent"
    /\ qfile_at_entry = "absent"
    /\ env = NoEnv
    /\ topics_list = 0
    /\ questions_per_level = 0
    /\ topic_idx = 0
    /\ topic_questions = 0
    /\ stages = <<>>
    /\ model_calls = 0
    /\ file_writes = 0

GSInit ==
    /\ max_retries \in 0..MaxRetries
    /\ attempt = 0
    /\ gs_log = <<>>
    /\ gs_last = NoResponse
    /\ gs_outcome = "running"
    /\ gs_result = None
    /\ gs_error = NoError

\* One iteration of the for loop on the response the model call gave:
\* cleaning, validation, and the except clause.
GS_Handle(resp) ==
    LET r   == AttemptResult(resp)
        log == Append(gs_log, r)
    IN  /\ gs_log' = log
        /\ gs_last' = IF r.ok THEN resp ELSE gs_last
        /\ IF r.ok
           THEN /\ gs_outcome' = "returned"
                /\ gs_result' = r.value
                /\ UNCHANGED <<attempt, gs_error>>
           ELSE IF ShouldRetry(attempt, max_retries)
                THEN /\ attempt' = attempt + 1
                     /\ UNCHANGED <<gs_outcome, gs_result, gs_error>>
                ELSE /\ gs_outcome' = "raised"
                     /\ gs_error' = RaisedError(log)
                     /\ UNCHANGED <<attempt, gs_result>>
        /\ UNCHANGED max_retries

\* One iteration of the for loop: the model call and what follows it.
GS_Attempt ==
    /\ gs_outcome = "running"
    /\ attempt < max_retries
    /\ \E resp \in Responses : GS_Handle(resp)
    /\ UNCHANGED <<api_key, mainVars, pcVars, varVars, fnVars, verVars, gjVars, tailVars>>

\* The for loop ends without a return or a raise: the function falls off
\* its end and returns None.
GS_FallThrough ==
    /\ gs_outcome = "running"
    /\ attempt >= max_retries
    /\ gs_outcome' = "returned"
    /\ gs_result' = None
    /\ UNCHANGED <<max_retries, attempt, gs_log, gs_last, gs_error>>
    /\ UNCHANGED <<api_key, mainVars, pcVars, varVars, fnVars, verVars, gjVars, tailVars>>

GSNext == GS_Attempt \/ GS_FallThrough

\* generate_structured is called; nothing else is in use.
GSCallInit ==
    /\ GSInit
    /\ api_key = "set"
    /\ MainIdle
    /\ PCIdle
    /\ VarIdle
    /\ FnIdle
    /\ VerIdle
    /\ GJIdle
    /\ TailIdle

SpecGS == GSCallInit /\ [][GSNext]_vars

-----------------------------------------------------------------------------
(***************************************************************************)
(* Claims about generate_structured, checked under SpecGS.                 *)
(***************************************************************************)
ValidValues == {"Ja", "Jb"}

AllFailed == \A i \in 1..Len(gs_log) : ~gs_log[i].ok

\* C1: for max_retries >= 1 one invocation issues at most max_retries model
\* calls, returns the value of the first attempt whose cleaned response
\* parses and validates, and issues no model call after that attempt.
C1_BoundedRetryFirstSuccess ==
    max_retries >= 1 =>
        /\ Len(gs_log) <= max_retries
        /\ \A i \in 1..Len(gs_log) : gs_log[i].ok => i = Len(gs_log)
        /\ (~AllFailed) => gs_outcome = "returned"
        /\ gs_outcome = "returned" =>
              /\ gs_log # <<>>
              /\ gs_log[Len(gs_log)].ok
              /\ gs_result \in ValidValues
              /\ ~gs_last.raises
              /\ \E i \in 1..Len(gs_last.text) : gs_last.text[i] = gs_result

\* C1 witness: the second of three allowed attempts succeeds on a fenced
\* response, and the invocation has returned.
C1_Witness ==
    /\ max_retries = 3
    /\ gs_outcome = "returned"
    /\ Len(gs_log) = 2
    /\ gs_last.text = <<"TICKS", "JSONW", "Jb">>
    /\ gs_result = "Jb"

\* C2: when all max_retries attempts have failed the invocation has raised
\* (it returns nothing), and the error raised is that of the last attempt.
C2_ExhaustedRaisesLastError ==
    /\ (max_retries >= 1 /\ Len(gs_log) = max_retries /\ AllFailed) =>
          /\ gs_outcome = "raised"
          /\ gs_result = None
          /\ gs_error = [attempt |-> max_retries, cause |-> gs_log[max_retries].cause]
    /\ gs_outcome = "raised" => (Len(gs_log) = max_retries /\ AllFailed)

\* C2 witness: three attempts failed for different reasons and the error of
\* the third was raised.
C2_Witness ==
    /\ max_retries = 3
    /\ gs_outcome = "raised"
    /\ gs_log[1].cause = "api_error"
    /\ gs_log[2].cause = "json_invalid"
    /\ gs_log[3].cause = "schema_invalid"
    /\ gs_error.cause = "schema_invalid"

\* C3 (as claimed): for every max_retries >= 0 an invocation that has ended
\* either returned a value validated during this invocation or raised; it
\* never returns an absent value.
C3_ReturnsValidatedOrRaises ==
    gs_outcome # "running" =>
        \/ gs_outcome = "raised"
        \/ /\ gs_outcome = "returned"
           /\ gs_result \in ValidValues
           /\ gs_log # <<>>
           /\ gs_log[Len(gs_log)].ok

-----------------------------------------------------------------------------
(***************************************************************************)
(* main and process_chapter (main.py).  Chapter directories are numbered   *)
(* 1..MaxChapters in the order of their paths.                             *)
(***************************************************************************)
ChapterIds == 1..MaxChapters

Range(f) == {f[i] : i \in DOMAIN f}

\* The orders in which a search can meet the chapter directories of a tree.
Arrangements(S) ==
    {f \in UNION {[1..n -> S] : n \in 0..Cardinality(S)} :
        \A i, j \in DOMAIN f : i # j => f[i] # f[j]}

RECURSIVE SortedSeq(_)
SortedSeq(S) ==
    IF S = {} THEN <<>>
    ELSE LET m == CHOOSE x \in S : \A y \in S : x <= y
         IN  <<m>> \o SortedSeq(S \ {m})

\* find_chapters_to_process(root_path): nothing unless root_path is a
\* directory; then sorted(chapters).
find_chapters_to_process(kind, fnd) ==
    IF kind \in {"chapter_dir", "tree"} THEN SortedSeq(Range(fnd)) ELSE <<>>

\* A mutant of SkipExisting: an existing questions.json is not looked at.
SkipExisting_Never(skip_if_exists, q) == FALSE

\* "if skip_if_exists and questions_file.exists()" (main.py 233).
SkipExisting(skip_if_exists, q) == skip_if_exists /\ q # "absent"

\* What reading a chapter's inputs (main.py 237-310) can come to, in the
\* order the code meets them.
ConfigCases ==
    {"info_error",            \* get_chapter_info raises: return False (243)
     "syllabus_missing",      \* read_syllabus_file raises: return False (257)
     "syllabus_invalid_json", \* load_json raises inside the try: return False
     "syllabus_not_object",   \* syllabus_data.get raises, outside any try (262)
     "no_match",              \* no syllabus entry matches: return False (281)
     "no_topics",             \* the entry lists no topics: return False (289)
     "content_malformed",     \* load_json(chapter_content.json) raises (309)
     "ok"}

ConfigOutcome_MatchesAnyway(c) ==
    IF c \in {"syllabus_not_object", "content_malformed"} THEN "raised"
    ELSE IF c \in {"ok", "no_match"} THEN "generate"
    ELSE "False"
ConfigOutcome(c) ==
    IF c \in {"syllabus_not_object", "content_malformed"} THEN "raised"
    ELSE IF c = "ok" THEN "generate"
    ELSE "False"

\* main.py 296-301.
QuestionsPerLevel(ntopics) == IF ntopics < 5 THEN 8 ELSE 5

\* main.py 113-114.
QuestionsPerBatch == 2
NumBatches(n) == (n + QuestionsPerBatch - 1) \div QuestionsPerBatch

\* main.py 120-121: the per-level count batch batch_num (from 0) asks for.
BatchSize(n, batch_num) ==
    LET remaining == n - batch_num * QuestionsPerBatch
    IN  IF QuestionsPerBatch < remaining THEN QuestionsPerBatch ELSE remaining

\* The call get_question_generation_prompt(topic_name, topic_content,
\* batch_size, previous_questions_summary) of main.py 143-148 passes four
\* positional arguments; the function of instructions.py 340 has five
\* parameters without a default (topic, content, class_name, subject_name,
\* chapter_name).  Python raises TypeError on such a call.
PromptArgsPassed == 4
PromptArgsRequired == 5
PromptCallRaises == PromptArgsPassed < PromptArgsRequired

\* A mutant of generate_questions_for_topic: its first model call neither
\* returns nor raises.
generate_questions_for_topic_Pending(n, key) == "model_call"

\* generate_questions_for_topic (main.py 88-173) up to its first model call:
\* "raises", or "model_call" when it gets as far as generate_structured.
generate_questions_for_topic(n, key) ==
    IF key = "missing" THEN "raises"            \* get_llm_client (109)
    ELSE IF NumBatches(n) <= 0 THEN "raises"    \* no batch: ValueError (166)
    ELSE IF PromptCallRaises THEN "raises"      \* TypeError, re-raised (162)
    ELSE "model_call"

\* What questions.json of a chapter can be when process_chapter is entered:
\* not there, there but empty, there as the Generation Stage saves it
\* (main.py 346: questions without variations) or as the Variation Stage
\* saves it (main.py 394).
QuestionsFileStates == {"absent", "empty", "generated", "content"}

\* main.py 318-334: neither the body of the loop over the topics nor its
\* except block writes a file; the first save_json comes after the loop (346).
SavesPartialProgress_Yes == TRUE
SavesPartialProgress == FALSE

\* A mutant of ChapterExceptionCaught: the exception leaves main.
ChapterExceptionCaught_No == FALSE

\* "except Exception as e" around process_chapter (main.py 493).
ChapterExceptionCaught == TRUE

\* A mutant of ExitsEarly: only a missing path ends the program early.
ExitsEarly_OnlyMissing(kind, ch) == kind = "missing"

\* main.py 458-472: sys.exit(1) when the path does not exist or no chapter
\* was found.
ExitsEarly(kind, ch) == kind = "missing" \/ ch = <<>>

PLInit ==
    /\ root_kind \in {"missing", "file", "chapter_dir", "tree"}
    /\ found \in Arrangements(ChapterIds)
    /\ root_kind \in {"missing", "file"} => found = <<>>
    /\ root_kind = "chapter_dir" => Len(found) = 1
    /\ api_key \in {"set", "missing"}
    /\ chapters = <<>>
    /\ mainPc = "start"
    /\ idx = 0
    /\ processed = 0
    /\ skipped = 0
    /\ failed = 0
    /\ invoked = <<>>
    /\ outcomes = <<>>
    /\ PCIdle
    /\ GSIdle
    /\ VarIdle
    /\ FnIdle
    /\ VerIdle
    /\ GJIdle
    /\ TailIdle

\* main.py 456-479: the path check, the search, the counters.
Main_Start ==
    /\ mainPc = "start"
    /\ LET ch == find_chapters_to_process(root_kind, found)
       IN  IF ExitsEarly(root_kind, ch)
           THEN /\ mainPc' = "exit1"
                /\ UNCHANGED <<chapters, idx>>
           ELSE /\ mainPc' = "loop"
                /\ chapters' = ch
                /\ idx' = 1
    /\ UNCHANGED <<root_kind, found, processed, skipped, failed, invoked, outcomes>>
    /\ UNCHANGED pcVars
    /\ UNCHANGED <<api_key, gsVars, varVars, fnVars, verVars, gjVars, tailVars>>

\* A mutant of PreviousCallEnded: the loop goes on to the next chapter
\* without waiting for process_chapter.
PreviousCallEnded_NotAwaited(p) == TRUE

\* main.py 481-495: process_chapter is an ordinary call; the loop body comes
\* to its end, the outcome counted, before the next iteration begins.
PreviousCallEnded(p) == p = "idle"

\* main.py 481-485: the loop calls process_chapter on the next chapter.  The
\* chapter directory is met as it is on disk at that time.
Main_Call ==
    /\ mainPc = "loop"
    /\ PreviousCallEnded(pc)
    /\ idx <= Len(chapters)
    /\ invoked' = Append(invoked, chapters[idx])
    /\ pc' = "enter"
    /\ \E q \in QuestionsFileStates :
         /\ qfile' = q
         /\ qfile_at_entry' = q
    /\ pc_result' = None
    /\ env' = NoEnv
    /\ topics_list' = 0
    /\ questions_per_level' = 0
    /\ topic_idx' = 0
    /\ topic_questions' = 0
    /\ stages' = <<>>
    /\ model_calls' = 0
    /\ file_writes' = 0
    /\ UNCHANGED <<root_kind, found, chapters, mainPc, idx, processed, skipped, failed,
                   outcomes>>
    /\ UNCHANGED <<api_key, gsVars, varVars, fnVars, verVars, gjVars, tailVars>>

\* main.py 227-235: the skip check.
PC_Enter ==
    /\ pc = "enter"
    /\ IF SkipExisting(TRUE, qfile)
       THEN /\ pc' = "returned"
            /\ pc_result' = "True"
       ELSE /\ pc' = "config"
            /\ UNCHANGED pc_result
    /\ UNCHANGED <<qfile, qfile_at_entry, env, topics_list, questions_per_level, topic_idx,
                   topic_questions, stages, model_calls, file_writes>>
    /\ UNCHANGED mainVars
    /\ UNCHANGED <<api_key, gsVars, varVars, fnVars, verVars, gjVars, tailVars>>

\* main.py 237-314: chapter info, syllabus, the matching entry, its topics,
\* the per-level count, the chapter content; then stage 1 begins.
PC_ReadConfig ==
    /\ pc = "config"
    /\ \E c \in ConfigCases, n \in 1..MaxTopics :
         /\ env' = [env EXCEPT !.config = c]
         /\ IF ConfigOutcome(c) = "generate"
            THEN /\ pc' = "generate"
                 /\ topics_list' = n
                 /\ questions_per_level' = QuestionsPerLevel(n)
                 /\ stages' = Append(stages, "generation")
                 /\ UNCHANGED pc_result
            ELSE /\ pc' = IF ConfigOutcome(c) = "raised" THEN "raised" ELSE "returned"
                 /\ pc_result' = IF ConfigOutcome(c) = "raised" THEN None ELSE "False"
                 /\ UNCHANGED <<topics_list, questions_per_level, stages>>
    /\ UNCHANGED <<qfile, qfile_at_entry, topic_idx, topic_questions, model_calls, file_writes>>
    /\ UNCHANGED mainVars
    /\ UNCHANGED <<api_key, gsVars, varVars, fnVars, verVars, gjVars, tailVars>>

\* main.py 318-334: one iteration of the loop over topics_list.
\* extract_topic_content is called outside the try (323) and can raise (it
\* uses the topic name as a regular expression); an exception of
\* generate_questions_for_topic is caught and ends the chapter (332-334).
PC_GenerateTopic ==
    /\ pc = "generate"
    /\ topic_idx < topics_list
    /\ topic_idx' = topic_idx + 1
    /\ \E ex \in {"ok", "raises"} :
         /\ env' = [env EXCEPT !.extract = ex]
         /\ IF ex = "raises"
            THEN /\ pc' = "raised"
                 /\ UNCHANGED <<pc_result, topic_questions>>
            ELSE IF generate_questions_for_topic(questions_per_level, api_key) = "raises"
                 THEN /\ pc' = "returned"
                      /\ pc_result' = "False"
                      /\ UNCHANGED topic_questions
                 ELSE \* the first model call of the topic: not reached, see
                      \* PromptCallRaises
                      /\ pc' = "model_call"
                      /\ UNCHANGED <<pc_result, topic_questions>>
    /\ IF SavesPartialProgress
       THEN qfile' = "generated" /\ file_writes' = file_writes + 1
       ELSE UNCHANGED <<qfile, file_writes>>
    /\ UNCHANGED <<qfile_at_entry, topics_list, questions_per_level, stages, model_calls>>
    /\ UNCHANGED mainVars
    /\ UNCHANGED <<api_key, gsVars, varVars, fnVars, verVars, gjVars, tailVars>>

\* main.py 486-495: what main does with the outcome of process_chapter.
Main_Collect ==
    /\ mainPc = "loop"
    /\ pc \in {"returned", "raised"}
    /\ outcomes' = Append(outcomes, IF pc = "raised" THEN "raised" ELSE pc_result)
    /\ IF pc = "raised" /\ ~ChapterExceptionCaught
       THEN /\ mainPc' = "aborted"
            /\ UNCHANGED <<idx, processed, skipped, failed>>
       ELSE /\ mainPc' = mainPc
            /\ idx' = idx + 1
            /\ IF pc = "returned" /\ pc_result = "True" /\ qfile \in {"generated", "content"}
               THEN processed' = processed + 1 /\ UNCHANGED <<skipped, failed>>
               ELSE IF pc = "returned" /\ pc_result = "True" /\ qfile = "empty"
                    THEN skipped' = skipped + 1 /\ UNCHANGED <<processed, failed>>
                    ELSE \* False, an exception of process_chapter, or stat()
                         \* raising on a missing file
                         failed' = failed + 1 /\ UNCHANGED <<processed, skipped>>
    /\ pc' = "idle"
    /\ UNCHANGED <<root_kind, found, chapters, invoked>>
    /\ UNCHANGED <<pc_result, qfile, qfile_at_entry, env, topics_list, questions_per_level,
                   topic_idx, topic_questions, stages, model_calls, file_writes>>
    /\ UNCHANGED <<api_key, gsVars, varVars, fnVars, verVars, gjVars, tailVars>>

\* main.py 497-504: the summary.
Main_Summary ==
    /\ mainPc = "loop"
    /\ pc = "idle"
    /\ idx > Len(chapters)
    /\ mainPc' = "summary"
    /\ UNCHANGED <<root_kind, found, chapters, idx, processed, skipped, failed, invoked,
                   outcomes>>
    /\ UNCHANGED pcVars
    /\ UNCHANGED <<api_key, gsVars, varVars, fnVars, verVars, gjVars, tailVars>>

PLNext ==
    \/ Main_Start
    \/ Main_Call
    \/ PC_Enter
    \/ PC_ReadConfig
    \/ PC_GenerateTopic
    \/ Main_Collect
    \/ Main_Summary

Spec == PLInit /\ [][PLNext]_vars

\* The program is sequential and nothing in these steps blocks: a step that
\* can be taken is taken.
LiveSpec == Spec /\ WF_vars(PLNext)

-----------------------------------------------------------------------------
(***************************************************************************)
(* Claims about process_chapter and main, checked under Spec and LiveSpec. *)
(***************************************************************************)
Ended == pc \in {"returned", "raised"}

\* Nothing outside the code stands in the way of this chapter: it has no
\* questions.json yet, its inputs were read and matched, the API key is set,
\* topic extraction worked, and no model call was answered with an error.
EnvironmentFine ==
    /\ qfile_at_entry = "absent"
    /\ env.config = "ok"
    /\ env.extract = "ok"
    /\ api_key = "set"

C12_ChapterGeneratedForEveryTopic ==
    (Ended /\ EnvironmentFine) =>
        /\ pc = "returned"
        /\ pc_result = "True"
        /\ topic_idx = topics_list
        /\ topic_questions = topics_list
        /\ file_writes >= 1
        /\ qfile = "content"

\* C22: when no syllabus entry matches the chapter, or syllabus.json is
\* missing, or the matched entry lists no topics, process_chapter returns
\* failure; no stage was entered, no model call issued, nothing written.
C22_UnmatchedChapterFailsCleanly ==
    (Ended /\ env.config \in {"syllabus_missing", "no_match", "no_topics"}) =>
        /\ pc = "returned"
        /\ pc_result = "False"
        /\ stages = <<>>
        /\ model_calls = 0
        /\ file_writes = 0
        /\ qfile = "absent"

\* C22 witness: the second chapter of the run had no matching syllabus entry.
C22_Witness ==
    /\ pc = "returned"
    /\ pc_result = "False"
    /\ env.config = "no_match"
    /\ Len(invoked) = 2
    /\ qfile = "absent"

\* C23: questions.json is not written while the Generation Stage is under
\* way: a chapter that fails during generation has no questions.json (none
\* existed before), and every run enters generation at the first topic with
\* nothing carried over.
C23_NoPartialProgressPersisted ==
    /\ pc \in {"config", "generate"} =>
          (file_writes = 0 /\ qfile = "absent" /\ qfile_at_entry = "absent")
    /\ (Ended /\ stages = <<"generation">>) => (file_writes = 0 /\ qfile = "absent")
    /\ pc = "config" => (topic_idx = 0 /\ topic_questions = 0)
    /\ pc = "generate" => topic_questions = 0

\* C23 witness: a chapter of three topics failed at its first topic; there
\* is no questions.json.
C23_Witness ==
    /\ pc = "returned"
    /\ pc_result = "False"
    /\ stages = <<"generation">>
    /\ topics_list = 3
    /\ topic_idx = 1
    /\ qfile = "absent"
    /\ file_writes = 0

\* The chapter being processed was left by an earlier run with its
\* questions saved but without their variations.
VariationsPending == pc # "idle" /\ qfile_at_entry = "generated"

\* C24: in a restarted run no generation call is repeated for a chapter
\* whose questions.json exists, and the questions that still have no
\* variations eventually receive them.
C24_RestartCompletesVariations ==
    /\ [](qfile_at_entry # "absent" => (model_calls = 0 /\ "generation" \notin Range(stages)))
    /\ [](VariationsPending => <>("variation" \in Range(stages) /\ qfile = "content"))

\* C6 (as claimed): a topic whose generation fails is skipped and generation
\* goes on with the remaining topics; the chapter fails in generation only
\* when every topic was tried and none succeeded.
C6_FailedTopicIsSkipped ==
    (pc = "returned" /\ pc_result = "False" /\ "generation" \in Range(stages)) =>
        /\ topic_idx = topics_list
        /\ topic_questions = 0

\* C7: an invocation on a chapter directory that already holds
\* questions.json returns success at once: no input is read, no stage is
\* entered, no model call is issued and no file is written or changed.
C7_ExistingChapterSkipped ==
    (pc \notin {"idle", "enter"} /\ qfile_at_entry # "absent") =>
        /\ pc = "returned"
        /\ pc_result = "True"
        /\ env = NoEnv
        /\ stages = <<>>
        /\ model_calls = 0
        /\ file_writes = 0
        /\ qfile = qfile_at_entry

\* C7 witness: process_chapter has returned on a chapter whose questions.json
\* existed with content.
C7_Witness ==
    /\ pc = "returned"
    /\ qfile_at_entry = "content"
    /\ pc_result = "True"
    /\ Len(invoked) = 2

C8_Safety ==
    /\ mainPc # "aborted"
    /\ mainPc \in {"loop", "summary"} =>
          /\ Range(chapters) = Range(found)
          /\ Len(chapters) = Len(found)
          /\ \A i, j \in 1..Len(chapters) : i < j => chapters[i] < chapters[j]
    /\ Len(invoked) <= Len(chapters)
    /\ \A i \in 1..Len(invoked) : invoked[i] = chapters[i]
    /\ Len(invoked) = (IF pc = "idle" THEN Len(outcomes) ELSE Len(outcomes) + 1)
    /\ mainPc = "summary" => (invoked = chapters /\ Len(outcomes) = Len(chapters))

\* C8: main invokes process_chapter exactly once for every discovered
\* chapter, in sorted order, whatever earlier chapters returned or raised,
\* and the loop reaches the summary.
C8_EveryChapterProcessedOnce ==
    /\ []C8_Safety
    /\ (mainPc = "loop") ~> (mainPc = "summary")

\* C8 witness: the chapters were found in reverse order, the first one
\* processed raised, the second returned failure, and main is at its summary.
C8_Witness ==
    /\ mainPc = "summary"
    /\ found = <<2, 1>>
    /\ invoked = <<1, 2>>
    /\ outcomes = <<"raised", "False">>

\* The exit code of the program, once it has ended: sys.exit(1) (main.py
\* 460, 472), an exception that leaves main, or main returning after its
\* summary (main.py 504, 517).
ExitCode ==
    IF mainPc = "exit1" THEN 1
    ELSE IF mainPc = "aborted" THEN 1
    ELSE IF mainPc = "summary" THEN 0
    ELSE -1

NothingToProcess == root_kind \in {"missing", "file"} \/ found = <<>>

C32_Safety ==
    /\ ExitCode = 1 =>
          /\ NothingToProcess
          /\ invoked = <<>>
          /\ pc = "idle"
          /\ model_calls = 0
          /\ file_writes = 0
    /\ ExitCode = 0 =>
          /\ ~NothingToProcess
          /\ Len(invoked) = Len(found)
          /\ Len(outcomes) = Len(found)
          /\ processed + skipped + failed = Len(found)
    /\ NothingToProcess => mainPc \in {"start", "exit1"}

\* C32: main exits with code 1, nothing processed, when the root path does
\* not exist or no chapter is found under it; otherwise it goes through all
\* the chapters found, reaches its summary and ends with code 0, also when
\* every chapter failed.
C32_ExitCodes ==
    /\ []C32_Safety
    /\ (mainPc = "start" /\ NothingToProcess) ~> (ExitCode = 1)
    /\ (mainPc = "start" /\ ~NothingToProcess) ~> (ExitCode = 0)

\* C32 witness: both chapters failed and main ended with code 0.
C32_Witness ==
    /\ ExitCode = 0
    /\ Len(found) = 2
    /\ failed = 2
    /\ outcomes = <<"False", "raised">>

RECURSIVE SumOfBatches(_, _)
SumOfBatches(n, k) ==
    IF k >= NumBatches(n) THEN 0 ELSE BatchSize(n, k) + SumOfBatches(n, k + 1)

\* C35: with 8 questions per level for fewer than 5 topics and 5 otherwise,
\* a topic whose calls all succeed is generated with ceil(n / 2)
\* structured-generation invocations, each asking for 1 or 2 questions per
\* level, n in all.
C35_BatchesCoverTarget ==
    (pc \notin {"idle", "enter", "config"} /\ EnvironmentFine /\ topic_idx >= 1) =>
        /\ questions_per_level = (IF topics_list < 5 THEN 8 ELSE 5)
        /\ \A k \in 0..(NumBatches(questions_per_level) - 1) :
              BatchSize(questions_per_level, k) \in {1, 2}
        /\ SumOfBatches(questions_per_level, 0) = questions_per_level
        /\ Ended => model_calls >= NumBatches(questions_per_level)

\* main is taking in the outcome of a process_chapter invocation.
Collecting == mainPc = "loop" /\ pc \in {"returned", "raised"} /\ pc' = "idle"

\* C33: every chapter is counted exactly once: as skipped when it was
\* skipped because its questions.json existed, as processed when it ran
\* the pipeline to its end, as failed when process_chapter returned failure
\* or raised.
C33_CountersClassifyChapters ==
    [][Collecting =>
          /\ processed' + skipped' + failed' = processed + skipped + failed + 1
          /\ (pc = "returned" /\ pc_result = "True" /\ qfile_at_entry # "absent") =>
                 skipped' = skipped + 1
          /\ (pc = "returned" /\ pc_result = "True" /\ qfile_at_entry = "absent") =>
                 processed' = processed + 1
          /\ (pc = "raised" \/ pc_result = "False") => failed' = failed + 1]_vars

-----------------------------------------------------------------------------
\* The Variation Stage (variate.py), called directly on a validated
\* ChapterQuestions document.

MaxVarTopics == 1   \* topics of the document
MaxSpecial == 1     \* questions whose stored variations and calls are left open
MaxVarRuns == 2     \* calls of add_variations_to_chapter on the same document

\* The four lists of a topic in the order the loops take them, and the six
\* Bloom groups of each list (models.py 116-129).
QuestionTypes == <<"MCQ", "Fill in the Blank", "Short Answer", "Long Answer">>

BloomGroups == 6

\* BloomLevelGroup.questions has at least one question (models.py 92); the
\* document modelled has exactly that many in every group.
GroupQuestions == 1

VariationCount == 5

QuestionsPerTopic == Len(QuestionTypes) * BloomGroups * GroupQuestions

\* Questions are numbered in the order add_variations_to_chapter visits them.
Questions == 1 .. (MaxVarTopics * QuestionsPerTopic)

\* A variation string, named by where it came from: run 0 is the document
\* as loaded, run r >= 1 the r-th call; i is the item's place in the response.
QuestionText == [r |-> -1, i |-> 0]

Stored(n) == [j \in 1..n |-> [r |-> 0, i |-> j]]

\* What the document may hold for a question on entry: Field(default=[]) on
\* List[str] puts no limit on the length (models.py 24, 31, 38, 52).
StoredVariations == {<<>>, Stored(2), Stored(VariationCount)}

\* What generate_json gives back for one question: it raises, or it returns a
\* JSON value.  "v" is an item the normalizer turns into a non-empty string,
\* "b" one it turns into "".
VarItems(n) == [j \in 1..n |-> "v"]

NominalResponse == [kind |-> "object", items |-> VarItems(VariationCount)]

VarResponses ==
    { [kind |-> "raises", items |-> <<>>],
      NominalResponse,
      [kind |-> "array",  items |-> <<>>],
      [kind |-> "array",  items |-> <<"b", "v", "b", "v", "v">>],
      [kind |-> "object", items |-> VarItems(VariationCount + 1)],
      [kind |-> "other",  items |-> <<"v">>] }

\* variate.py 163-176: the items of the response, normalized, empty ones dropped.
RECURSIVE Kept(_, _, _)
Kept(items, run, j) ==
    IF j > Len(items) THEN <<>>
    ELSE IF items[j] = "v" THEN <<[r |-> run, i |-> j]>> \o Kept(items, run, j + 1)
    ELSE Kept(items, run, j + 1)

\* variate.py 178-183: pad to five with the first variation, or with the
\* question text when there is none.
Padded_WithLast(vs) ==
    IF Len(vs) < VariationCount
    THEN vs \o [j \in 1..(VariationCount - Len(vs)) |-> IF vs # <<>> THEN vs[Len(vs)] ELSE QuestionText]
    ELSE vs
Padded(vs) ==
    IF Len(vs) < VariationCount
    THEN vs \o [j \in 1..(VariationCount - Len(vs)) |-> IF vs # <<>> THEN vs[1] ELSE QuestionText]
    ELSE vs

\* variate.py 155-193
generate_variations_for_question_PadsOnError(resp, run) ==
    IF resp.kind = "raises" THEN Padded(<<>>)
    ELSE SubSeq(Padded(Kept(resp.items, run, 1)), 1, VariationCount)
generate_variations_for_question(resp, run) ==
    IF resp.kind = "raises" THEN <<>>
    ELSE SubSeq(Padded(Kept(resp.items, run, 1)), 1, VariationCount)

\* The fields of a question other than its variations: its type's fields
\* (question text, options, answer, explanation, reference answer or
\* points), named here by the question's place in the document.
TypeOf(q) == QuestionTypes[(((q - 1) % QuestionsPerTopic) \div (BloomGroups * GroupQuestions)) + 1]

OtherFields(q) == [question_type |-> TypeOf(q), question |-> q]

\* variate.py 225: "question.variations = variations"
SetVariations_AndText(question, vs) ==
    [other |-> [question.other EXCEPT !.question = 0], variations |-> vs]
SetVariations(question, vs) == [question EXCEPT !.variations = vs]

\* variate.py 221: "if not question.variations"
NeedsVariations_Always(vs) == TRUE
NeedsVariations(vs) == vs = <<>>

GroupOf(q) == (((q - 1) % (BloomGroups * GroupQuestions)) \div GroupQuestions) + 1

\* The questions that may be left open: those of the first Bloom group of
\* each list, one for each of the four loops over a topic.
SpecialCandidates == {q \in Questions : GroupOf(q) = 1}

\* The sets of at most k such questions.
RECURSIVE QuestionSetsUpTo(_)
QuestionSetsUpTo(k) ==
    IF k = 0 THEN {{}}
    ELSE LET smaller == QuestionSetsUpTo(k - 1)
         IN  smaller \cup {S \cup {q} : S \in smaller, q \in SpecialCandidates}

\* A validated document is handed to the first call.  Outside `special` the
\* questions carry no variations and every call returns five usable items.
VarInit ==
    /\ api_key \in {"set", "missing"}
    /\ special \in QuestionSetsUpTo(MaxSpecial)
    /\ \E stored \in [special -> StoredVariations] :
          cq = [q \in Questions |-> IF q \in special THEN stored[q] ELSE <<>>]
    /\ cq_prev = cq
    /\ cq_other = [q \in Questions |-> OtherFields(q)]
    /\ v_log = [q \in Questions |-> "none"]
    /\ v_pos = 1
    /\ v_run = 1
    /\ v_state = "running"
    /\ v_calls = 0

\* One pass of the innermost loop body (variate.py 220-231 and its three
\* copies): skip the question, or call generate_variations_for_question and
\* store what it returns.  get_llm_client (variate.py 93) raises outside the
\* try block when no client can be built.
VS_Question ==
    /\ v_state = "running"
    /\ v_pos \in Questions
    /\ IF ~NeedsVariations(cq[v_pos])
       THEN /\ v_pos' = v_pos + 1
            /\ UNCHANGED <<cq, cq_other, v_log, v_calls, v_state>>
       ELSE IF api_key = "missing"
       THEN /\ v_state' = "raised"
            /\ UNCHANGED <<cq, cq_other, v_log, v_calls, v_pos>>
       ELSE \E resp \in (IF v_pos \in special THEN VarResponses ELSE {NominalResponse}) :
               LET question == [other |-> cq_other[v_pos], variations |-> cq[v_pos]]
                   updated == SetVariations(question,
                                  generate_variations_for_question(resp, v_run))
               IN
               /\ cq' = [cq EXCEPT ![v_pos] = updated.variations]
               /\ cq_other' = [cq_other EXCEPT ![v_pos] = updated.other]
               /\ v_log' = [v_log EXCEPT ![v_pos] = resp.kind]
               /\ v_calls' = v_calls + 1
               /\ v_pos' = v_pos + 1
               /\ UNCHANGED v_state
    /\ UNCHANGED <<special, cq_prev, v_run>>
    /\ UNCHANGED <<api_key, gsVars, mainVars, pcVars, fnVars, verVars, gjVars, tailVars>>

\* variate.py 277-281: the loops are over; the document is returned.
VS_Return ==
    /\ v_state = "running"
    /\ v_pos \notin Questions
    /\ v_state' = "done"
    /\ UNCHANGED <<special, cq, cq_prev, cq_other, v_log, v_pos, v_run, v_calls>>
    /\ UNCHANGED <<api_key, gsVars, mainVars, pcVars, fnVars, verVars, gjVars, tailVars>>

\* The caller hands the same document to add_variations_to_chapter again.
VS_CallAgain ==
    /\ v_state \in {"done", "raised"}
    /\ v_run < MaxVarRuns
    /\ v_run' = v_run + 1
    /\ cq_prev' = cq
    /\ v_log' = [q \in Questions |-> "none"]
    /\ v_pos' = 1
    /\ v_calls' = 0
    /\ v_state' = "running"
    /\ UNCHANGED <<special, cq, cq_other>>
    /\ UNCHANGED <<api_key, gsVars, mainVars, pcVars, fnVars, verVars, gjVars, tailVars>>

VarNext == VS_Question \/ VS_Return \/ VS_CallAgain

\* add_variations_to_chapter is called; nothing else is in use.
VarCallInit ==
    /\ VarInit
    /\ GSIdle
    /\ MainIdle
    /\ PCIdle
    /\ FnIdle
    /\ VerIdle
    /\ GJIdle
    /\ TailIdle

SpecVar == VarCallInit /\ [][VarNext]_vars

\* ---- claims about the Variation Stage ----

\* The questions the current call has passed that had no variations when it began.
EmptyAtEntry == {q \in Questions : q < v_pos /\ cq_prev[q] = <<>>}

\* C9 (as the code has it): a second call on the same document calls the model
\* exactly for the questions the first call left with no variations, and
\* changes no question whose variations were non-empty after the first call.
C9_SecondCallOnlyFillsEmpty ==
    v_run >= 2 =>
        /\ \A q \in Questions : cq_prev[q] # <<>> => cq[q] = cq_prev[q]
        /\ v_calls = Cardinality(EmptyAtEntry)

\* C9 witness: the first call left one question empty (its model call
\* failed); the second call is over, made one call, filled that question and
\* left the others as they were.
C9_Witness ==
    /\ v_run = 2
    /\ v_state = "done"
    /\ v_calls = 1
    /\ \E q \in Questions :
          /\ cq_prev[q] = <<>>
          /\ Len(cq[q]) = VariationCount
          /\ \A o \in Questions \ {q} : cq[o] = cq_prev[o] /\ Len(cq[o]) = VariationCount

\* C9 (as the spec has it): a second call on the same document issues no
\* model call and changes no question's variations, whatever the first
\* call's model calls did.
C9_SecondCallIsNoOp ==
    v_run >= 2 => (v_calls = 0 /\ cq = cq_prev)

\* C10: in every state after generation, during and after the Variation
\* Stage, every question's variations have 0 or exactly 5 elements.
C10_VariationsZeroOrFive ==
    \A q \in Questions : Len(cq[q]) \in {0, VariationCount}

-----------------------------------------------------------------------------
\* generate_variations_for_question (variate.py 75-193) called on its own,
\* on every response of at most MaxVarItems items.

MaxVarItems == 6

ItemLists == UNION {[1..n -> {"v", "b"}] : n \in 0..MaxVarItems}

GVResponses ==
    {[kind |-> "raises", items |-> <<>>]}
        \cup {[kind |-> k, items |-> its] : k \in {"object", "array"}, its \in ItemLists}
        \cup {[kind |-> "other", items |-> <<it>>] : it \in {"v", "b"}}

GVInit ==
    /\ fn_pc = "called"
    /\ fn_in \in GVResponses
    /\ fn_out = <<>>
    /\ api_key = "set"
    /\ GSIdle
    /\ MainIdle
    /\ PCIdle
    /\ VarIdle
    /\ VerIdle
    /\ GJIdle
    /\ TailIdle

GV_Call ==
    /\ fn_pc = "called"
    /\ fn_out' = generate_variations_for_question(fn_in, 1)
    /\ fn_pc' = "returned"
    /\ UNCHANGED fn_in
    /\ UNCHANGED <<api_key, gsVars, mainVars, pcVars, varVars, verVars, gjVars, tailVars>>

GVNext == GV_Call

SpecGV == GVInit /\ [][GVNext]_vars

\* The usable strings of a response, in the order the response has them.
ValidStrings(resp) ==
    LET tagged == [j \in 1..Len(resp.items) |-> [r |-> 1, i |-> j, usable |-> resp.items[j] = "v"]]
        usable == SelectSeq(tagged, LAMBDA t : t.usable)
    IN  [j \in 1..Len(usable) |-> [r |-> usable[j].r, i |-> usable[j].i]]

\* C11: when the call yields k usable strings, 1 <= k < 5, the result has
\* length 5, starts with those k strings in their order and ends with 5-k
\* copies of the first of them; when it yields none, all 5 elements are the
\* question text.
C11_ShortfallPadding ==
    (fn_pc = "returned" /\ fn_in.kind # "raises") =>
        LET valid == ValidStrings(fn_in)
            k == Len(valid)
        IN  /\ (1 <= k /\ k < VariationCount) =>
                  /\ Len(fn_out) = VariationCount
                  /\ \A j \in 1..k : fn_out[j] = valid[j]
                  /\ \A j \in (k + 1)..VariationCount : fn_out[j] = valid[1]
            /\ k = 0 =>
                  /\ Len(fn_out) = VariationCount
                  /\ \A j \in 1..VariationCount : fn_out[j] = QuestionText

\* C11 witness: a response of five items, the first and third of them blank,
\* came back as the three usable ones followed by two copies of the first.
C11_Witness ==
    /\ fn_pc = "returned"
    /\ fn_in = [kind |-> "array", items |-> <<"b", "v", "b", "v", "v">>]
    /\ fn_out = <<[r |-> 1, i |-> 2], [r |-> 1, i |-> 4], [r |-> 1, i |-> 5],
                  [r |-> 1, i |-> 2], [r |-> 1, i |-> 2]>>

\* C13: add_variations_to_chapter changes nothing in the document but the
\* variations of questions: the questions are the same, in the same places,
\* with the same other fields, and a question that had variations when the
\* call began has the same ones.
C13_OnlyVariationsChange ==
    /\ DOMAIN cq = Questions
    /\ DOMAIN cq_other = Questions
    /\ \A q \in Questions : cq_other[q] = OtherFields(q)
    /\ \A q \in Questions : cq_prev[q] # <<>> => cq[q] = cq_prev[q]

\* C13 witness: the first call is over; one question came with two stored
\* variations and still has them, and every other question was filled.
C13_Witness ==
    /\ v_state = "done"
    /\ v_run = 1
    /\ v_calls = Cardinality(Questions) - 1
    /\ \E q \in Questions :
          /\ cq_prev[q] = Stored(2)
          /\ cq[q] = Stored(2)
          /\ \A o \in Questions \ {q} : cq_prev[o] = <<>> /\ Len(cq[o]) = VariationCount

\* C17: a question whose variation call failed is left with no variations;
\* the stage does not raise because of it but goes on to the next question,
\* and every other question is as its own call, or the absence of one, left it.
C17_FailedCallLeavesEmptyAndContinues ==
    /\ \A q \in Questions :
          /\ v_log[q] = "raises" => (cq[q] = <<>> /\ v_pos > q /\ v_state # "raised")
          /\ v_log[q] = "none" => cq[q] = cq_prev[q]
          /\ v_log[q] \notin {"none", "raises"} => Len(cq[q]) = VariationCount
    /\ v_state = "raised" => (api_key = "missing" /\ v_calls = 0)
    /\ v_state = "done" =>
          /\ v_pos = Cardinality(Questions) + 1
          /\ \A q \in Questions : cq_prev[q] = <<>> => v_log[q] # "none"

\* C17 witness: the call for the first question failed; the call is over,
\* that question has no variations and every other question has five.
C17_Witness ==
    /\ v_state = "done"
    /\ v_run = 1
    /\ v_log[1] = "raises"
    /\ cq[1] = <<>>
    /\ \A q \in Questions \ {1} : v_log[q] = "object" /\ Len(cq[q]) = VariationCount

-----------------------------------------------------------------------------
\* The Verification Stage (verify.py), called directly on a validated
\* ChapterQuestions document whose questions.json has been written.

MaxVerTopics == 2

\* The question bank of a chapter of n topics, and the text of its
\* questions.json.
Document(n) == [t \in 1..n |-> [topic |-> t, questions |-> "generated"]]

QuestionsJson(n) == [text_of |-> Document(n)]

\* A TopicVerification the model may answer with.  A verification list is
\* the sequence of its QuestionVerifications, each given by the number of
\* its issues.
VerificationLists ==
    { [mcq |-> <<>>,     fill_blank |-> <<>>, short_answer |-> <<>>,     long_answer |-> <<>>],
      [mcq |-> <<2>>,    fill_blank |-> <<>>, short_answer |-> <<>>,     long_answer |-> <<0>>],
      [mcq |-> <<0, 1>>, fill_blank |-> <<>>, short_answer |-> <<1, 1>>, long_answer |-> <<>>] }

Qualities == {"excellent", "good", "fair", "poor"}

ModelVerifications ==
    { [topic |-> "as answered", lists |-> ls, overall_quality |-> q, has_duplicates |-> d] :
          ls \in VerificationLists, q \in Qualities, d \in BOOLEAN }

\* What generate_structured comes to for one topic: it raises after its
\* retries, or returns a validated TopicVerification.
VerCallOutcomes ==
    {[raised |-> TRUE, value |-> <<>>]}
        \cup {[raised |-> FALSE, value |-> v] : v \in ModelVerifications}

NoLists == [mcq |-> <<>>, fill_blank |-> <<>>, short_answer |-> <<>>, long_answer |-> <<>>]

\* verify.py 65-69: the verification returned when the call raised.
SyntheticVerification_Good(topic_name) ==
    [topic |-> topic_name, lists |-> NoLists, overall_quality |-> "good", has_duplicates |-> FALSE]
SyntheticVerification(topic_name) ==
    [topic |-> topic_name, lists |-> NoLists, overall_quality |-> "poor", has_duplicates |-> FALSE]

\* verify.py 39-69
verify_topic_questions(topic_name, outcome) ==
    IF outcome.raised THEN SyntheticVerification(topic_name) ELSE outcome.value

RECURSIVE SumSeq(_)
SumSeq(s) == IF s = <<>> THEN 0 ELSE Head(s) + SumSeq(Tail(s))

\* verify.py 99-107: the issues of one TopicVerification.
IssuesOf(v) ==
    SumSeq(v.lists.mcq) + SumSeq(v.lists.fill_blank)
        + SumSeq(v.lists.short_answer) + SumSeq(v.lists.long_answer)

\* verify.py 109-117: the loop that decides overall_pass, with its breaks.
RECURSIVE ChapterPasses_QualityOnly(_)
ChapterPasses_QualityOnly(vs) ==
    IF vs = <<>> THEN TRUE
    ELSE IF Head(vs).overall_quality \in {"poor", "fair"} THEN FALSE
    ELSE ChapterPasses_QualityOnly(Tail(vs))
RECURSIVE ChapterPasses(_)
ChapterPasses(vs) ==
    IF vs = <<>> THEN TRUE
    ELSE IF Head(vs).overall_quality \in {"poor", "fair"} THEN FALSE
    ELSE IF Head(vs).has_duplicates THEN FALSE
    ELSE ChapterPasses(Tail(vs))

\* verify.py 128-132: the report goes to verification_report.json.
WriteReport_OverQuestions(files, report) == [files EXCEPT !.questions_json = report]
WriteReport(files, report) == [files EXCEPT !.verification_report = report]

VerInit ==
    /\ api_key \in {"set", "missing"}
    /\ \E n \in 1..MaxVerTopics :
          /\ ver_doc = Document(n)
          /\ ver_files = [questions_json |-> QuestionsJson(n), verification_report |-> "absent"]
    /\ ver_pos = 1
    /\ ver_list = <<>>
    /\ ver_calls = <<>>
    /\ ver_issues = 0
    /\ ver_pc = "loop"
    /\ ver_result = <<>>
    /\ GSIdle
    /\ MainIdle
    /\ PCIdle
    /\ VarIdle
    /\ FnIdle
    /\ GJIdle
    /\ TailIdle

\* verify.py 91-107: one iteration of the loop over questions_data.topics.
\* get_llm_client (verify.py 31) is called outside the try block and raises
\* when no client can be built.
VER_Topic ==
    /\ ver_pc = "loop"
    /\ ver_pos <= Len(ver_doc)
    /\ IF api_key = "missing"
       THEN /\ ver_pc' = "raised"
            /\ UNCHANGED <<ver_pos, ver_list, ver_calls, ver_issues>>
       ELSE \E outcome \in VerCallOutcomes :
               LET verification == verify_topic_questions(ver_doc[ver_pos].topic, outcome)
               IN  /\ ver_list' = Append(ver_list, verification)
                   /\ ver_calls' = Append(ver_calls, IF outcome.raised THEN "failed" ELSE "answered")
                   /\ ver_issues' = ver_issues + IssuesOf(verification)
                   /\ ver_pos' = ver_pos + 1
                   /\ UNCHANGED ver_pc
    /\ UNCHANGED <<ver_doc, ver_files, ver_result>>
    /\ UNCHANGED <<api_key, gsVars, mainVars, pcVars, varVars, fnVars, gjVars, tailVars>>

\* verify.py 109-137: the verdict, the report file, the return.
VER_Finish ==
    /\ ver_pc = "loop"
    /\ ver_pos > Len(ver_doc)
    /\ LET chapter_verification ==
               [topic_verifications |-> ver_list,
                overall_pass |-> ChapterPasses(ver_list),
                total_issues |-> ver_issues]
       IN  /\ ver_result' = chapter_verification
           /\ ver_files' = WriteReport(ver_files, chapter_verification)
    /\ ver_pc' = "done"
    /\ UNCHANGED <<ver_doc, ver_pos, ver_list, ver_calls, ver_issues>>
    /\ UNCHANGED <<api_key, gsVars, mainVars, pcVars, varVars, fnVars, gjVars, tailVars>>

VerNext == VER_Topic \/ VER_Finish

SpecVer == VerInit /\ [][VerNext]_vars

\* ---- claims about the Verification Stage ----

\* C14: verify_chapter_questions leaves the question bank as it was: the
\* document it was given and questions.json are unchanged in every state,
\* whatever the model answered and whether or not calls failed; what it
\* produces is the returned ChapterVerification and verification_report.json.
C14_VerificationReadOnly ==
    /\ ver_doc = Document(Len(ver_doc))
    /\ ver_files.questions_json = QuestionsJson(Len(ver_doc))
    /\ ver_pc = "done" => ver_files.verification_report = ver_result
    /\ ver_pc # "done" => (ver_files.verification_report = "absent" /\ ver_result = <<>>)

\* C14 witness: two topics were verified, the first call failed, the second
\* was answered; the report is written and the bank is as it was.
C14_Witness ==
    /\ ver_pc = "done"
    /\ ver_calls = <<"failed", "answered">>
    /\ ver_files.verification_report = ver_result
    /\ ver_files.questions_json = QuestionsJson(2)
    /\ ver_doc = Document(2)

\* C15: overall_pass is true if and only if every topic's verification has
\* overall_quality not in {poor, fair} and has_duplicates false.
C15_OverallPassIffAllTopicsPass ==
    ver_pc = "done" =>
        (ver_result.overall_pass
            <=> \A i \in 1..Len(ver_result.topic_verifications) :
                   /\ ver_result.topic_verifications[i].overall_quality \notin {"poor", "fair"}
                   /\ ~ver_result.topic_verifications[i].has_duplicates)

\* C15 witness: two topics, both rated good or better, the second with
\* duplicates: the chapter does not pass.
C15_Witness ==
    /\ ver_pc = "done"
    /\ Len(ver_list) = 2
    /\ ver_list[1].overall_quality = "good" /\ ~ver_list[1].has_duplicates
    /\ ver_list[2].overall_quality = "excellent" /\ ver_list[2].has_duplicates
    /\ ~ver_result.overall_pass

\* C16: a topic whose verification call failed gets the synthetic
\* verification (poor, no duplicates, four empty lists); the loop goes on,
\* there is one verification per topic in topic order, and a chapter with a
\* failed call does not pass.
C16_FailedCallGivesSyntheticPoor ==
    /\ Len(ver_list) = Len(ver_calls)
    /\ Len(ver_list) = ver_pos - 1
    /\ \A i \in 1..Len(ver_calls) :
          ver_calls[i] = "failed" =>
              /\ ver_list[i].topic = ver_doc[i].topic
              /\ ver_list[i].overall_quality = "poor"
              /\ ver_list[i].has_duplicates = FALSE
              /\ ver_list[i].lists.mcq = <<>>
              /\ ver_list[i].lists.fill_blank = <<>>
              /\ ver_list[i].lists.short_answer = <<>>
              /\ ver_list[i].lists.long_answer = <<>>
    /\ ver_pc = "raised" => ver_calls = <<>>
    /\ ver_pc = "done" =>
          /\ Len(ver_list) = Len(ver_doc)
          /\ ver_result.topic_verifications = ver_list
          /\ (\E i \in 1..Len(ver_calls) : ver_calls[i] = "failed") => ~ver_result.overall_pass

\* C16 witness: the first topic's call failed, the second topic was still
\* verified and rated excellent, and the chapter did not pass.
C16_Witness ==
    /\ ver_pc = "done"
    /\ ver_calls = <<"failed", "answered">>
    /\ ver_list[1] = SyntheticVerification(1)
    /\ ver_list[2].overall_quality = "excellent" /\ ~ver_list[2].has_duplicates
    /\ ~ver_result.overall_pass

-----------------------------------------------------------------------------
\* Schema validation of one MCQQuestion (models.py 18-24), on its own.

MaxOptions == 5

OptionCount == 4

OptionTexts == {"p", "q", "r", "s"}

\* The JSON objects offered as an MCQQuestion: whether the required string
\* fields question and explanation are there, the options, the answer.
MCQInputs ==
    { [complete |-> c, options |-> os, answer |-> a] :
          c \in BOOLEAN,
          os \in UNION {[1..n -> OptionTexts] : n \in (OptionCount - 1)..MaxOptions},
          a \in OptionTexts \cup {"t"} }

\* models.py 20-24: every field without a default is there, and options has
\* min_length = max_length = 4.  No validator compares the fields.
MCQAccepted(doc) ==
    /\ doc.complete
    /\ Len(doc.options) = OptionCount

\* MCQQuestion.model_validate: the question, or a validation error.
MCQValidate(doc) ==
    IF MCQAccepted(doc)
    THEN [accepted |-> TRUE, options |-> doc.options, answer |-> doc.answer, variations |-> <<>>]
    ELSE [accepted |-> FALSE, options |-> <<>>, answer |-> "", variations |-> <<>>]

MCQInit ==
    /\ fn_pc = "called"
    /\ fn_in \in MCQInputs
    /\ fn_out = <<>>
    /\ api_key = "set"
    /\ GSIdle
    /\ MainIdle
    /\ PCIdle
    /\ VarIdle
    /\ VerIdle
    /\ GJIdle
    /\ TailIdle

MCQ_Validate ==
    /\ fn_pc = "called"
    /\ fn_out' = MCQValidate(fn_in)
    /\ fn_pc' = "returned"
    /\ UNCHANGED fn_in
    /\ UNCHANGED <<api_key, gsVars, mainVars, pcVars, varVars, verVars, gjVars, tailVars>>

MCQNext == MCQ_Validate

SpecMCQ == MCQInit /\ [][MCQNext]_vars

\* C18: every MCQQuestion that validation accepts has exactly 4 distinct
\* options and an answer equal to exactly one of them; an answer that is not
\* among the options is rejected.
C18_AnswerIsOneOfFourDistinctOptions ==
    (fn_pc = "returned" /\ fn_out.accepted) =>
        /\ Len(fn_out.options) = OptionCount
        /\ \A i, j \in 1..Len(fn_out.options) : i # j => fn_out.options[i] # fn_out.options[j]
        /\ Cardinality({i \in 1..Len(fn_out.options) : fn_out.options[i] = fn_out.answer}) = 1

-----------------------------------------------------------------------------
\* Validation of one LongAnswerQuestion (models.py 41-75), on its own.

MaxPoints == 7

MinReferencePoints == 3

MaxReferencePoints == 6

\* A reference point as given: clean text, text with spaces around it, or
\* nothing but whitespace.
PointTexts == {"point", " point ", " "}

StripText(p) == IF p = " point " THEN "point" ELSE IF p = " " THEN "" ELSE p

\* reference_answer as given: null, empty, whitespace only, or text.
AnswerTexts == {None, "", " ", "answer"}

Truthy(a) == a \notin {None, ""}

LongAnswerInputs ==
    { [reference_points |-> ps, reference_answer |-> a] :
          ps \in UNION {[1..n -> PointTexts] : n \in 0..MaxPoints},
          a \in AnswerTexts }

\* models.py 62: [p.strip() for p in model.reference_points if p.strip()]
RECURSIVE StrippedPoints(_)
StrippedPoints(ps) ==
    IF ps = <<>> THEN <<>>
    ELSE IF StripText(Head(ps)) # "" THEN <<StripText(Head(ps))>> \o StrippedPoints(Tail(ps))
    ELSE StrippedPoints(Tail(ps))

Rejected == [accepted |-> FALSE, reference_points |-> <<>>, reference_answer |-> ""]

\* models.py 54-75
ensure_reference_content(model) ==
    LET points == StrippedPoints(model.reference_points)
    IN  IF points # <<>>
        THEN IF ~(MinReferencePoints <= Len(points) /\ Len(points) <= MaxReferencePoints)
             THEN Rejected
             ELSE [accepted |-> TRUE,
                   reference_points |-> points,
                   reference_answer |-> IF Truthy(model.reference_answer) THEN ""
                                        ELSE model.reference_answer]
        ELSE IF Truthy(model.reference_answer) /\ StripText(model.reference_answer) # ""
             THEN [accepted |-> TRUE,
                   reference_points |-> model.reference_points,
                   reference_answer |-> model.reference_answer]
             ELSE Rejected

LAInit ==
    /\ fn_pc = "called"
    /\ fn_in \in LongAnswerInputs
    /\ fn_out = <<>>
    /\ api_key = "set"
    /\ GSIdle
    /\ MainIdle
    /\ PCIdle
    /\ VarIdle
    /\ VerIdle
    /\ GJIdle
    /\ TailIdle

LA_Validate ==
    /\ fn_pc = "called"
    /\ fn_out' = ensure_reference_content(fn_in)
    /\ fn_pc' = "returned"
    /\ UNCHANGED fn_in
    /\ UNCHANGED <<api_key, gsVars, mainVars, pcVars, varVars, verVars, gjVars, tailVars>>

LANext == LA_Validate

SpecLA == LAInit /\ [][LANext]_vars

NonBlankPoints(ps) == Cardinality({i \in 1..Len(ps) : ps[i] # " "})

\* C19: an accepted LongAnswerQuestion has exactly one of reference_points
\* and reference_answer non-empty; non-empty reference_points have 3 to 6
\* entries and come with an emptied reference_answer; an input with 1, 2 or
\* more than 6 non-blank points, or with neither points nor answer text, is
\* rejected.
C19_ExactlyOneReference ==
    fn_pc = "returned" =>
        /\ fn_out.accepted =>
              /\ (fn_out.reference_points # <<>>) # Truthy(fn_out.reference_answer)
              /\ fn_out.reference_points # <<>> =>
                    /\ MinReferencePoints <= Len(fn_out.reference_points)
                    /\ Len(fn_out.reference_points) <= MaxReferencePoints
                    /\ ~Truthy(fn_out.reference_answer)
        /\ LET n == NonBlankPoints(fn_in.reference_points)
           IN  /\ (n \in {1, 2} \/ n > MaxReferencePoints) => ~fn_out.accepted
               /\ (n = 0 /\ fn_in.reference_answer \in {None, "", " "}) => ~fn_out.accepted

-----------------------------------------------------------------------------
\* Validation of the TopicQuestions of each batch (models.py 82-121) and
\* merge_topic_batches (main.py 176-213), on their own.

MaxBatches == 2

MaxGroups == 7

BloomLevels == <<"remember", "understand", "apply", "analyze", "evaluate", "create">>

\* A Bloom group as batch b generated it for level lv: one question, which
\* remembers the batch and the level it was written for.
Group(b, lv) == [bloom_taxonomy |-> lv, questions |-> <<[batch |-> b, level |-> lv]>>]

\* The type-sequences a batch may come with: the six levels in order, fewer
\* or more groups, two levels swapped, one level repeated in another's
\* place, a level that is not one of the six, a group without questions.
GroupLists(b) ==
    { [i \in 1..n |-> Group(b, BloomLevels[((i - 1) % BloomGroups) + 1])] :
          n \in (BloomGroups - 1)..MaxGroups }
    \cup
    { [i \in 1..BloomGroups |-> Group(b, BloomLevels[IF i = 1 THEN 2 ELSE IF i = 2 THEN 1 ELSE i])],
      [i \in 1..BloomGroups |-> Group(b, BloomLevels[IF i = 2 THEN 1 ELSE i])],
      [i \in 1..BloomGroups |-> Group(b, IF i = 3 THEN "recall" ELSE BloomLevels[i])],
      [i \in 1..BloomGroups |->
          IF i = 4 THEN [bloom_taxonomy |-> BloomLevels[i], questions |-> <<>>]
          ELSE Group(b, BloomLevels[i])] }

InOrder(b) == [i \in 1..BloomGroups |-> Group(b, BloomLevels[i])]

TypeFields == {"MCQs", "fill_in_the_blanks", "short_answer", "long_answer"}

\* The documents batch b may come with: at most one of the four
\* type-sequences is other than the six levels in order.
BatchDocuments(b) ==
    { [f \in TypeFields |-> IF f = odd THEN gl ELSE InOrder(b)] :
          odd \in TypeFields, gl \in GroupLists(b) }

\* models.py 82-92: bloom_taxonomy is one of the six literals and questions
\* has at least one entry.
GroupAccepted(g) ==
    /\ g.bloom_taxonomy \in {BloomLevels[i] : i \in 1..Len(BloomLevels)}
    /\ Len(g.questions) >= GroupQuestions

\* models.py 116-121: each type-sequence has min_length = max_length = 6.
\* No validator looks at which levels the groups carry.
TopicQuestionsAccepted(doc) ==
    \A f \in TypeFields :
        /\ Len(doc[f]) = BloomGroups
        /\ \A i \in 1..Len(doc[f]) : GroupAccepted(doc[f][i])

\* main.py 196-211: the groups of a later batch are added to the merged
\* groups by position.
MergeInto(merged, batch) ==
    [f \in TypeFields |->
        [i \in 1..Len(merged[f]) |->
            [merged[f][i] EXCEPT !.questions = @ \o batch[f][i].questions]]]

RECURSIVE MergeFrom(_, _, _)
MergeFrom(merged, batches, k) ==
    IF k > Len(batches) THEN merged
    ELSE MergeFrom(MergeInto(merged, batches[k]), batches, k + 1)

\* main.py 186-187: "if not batches: raise ValueError".
MergeRaises(batches) == batches = <<>>

\* main.py 176-213 (the empty list: MergeRaises)
merge_topic_batches(batches) ==
    IF Len(batches) = 1 THEN batches[1] ELSE MergeFrom(batches[1], batches, 2)

TQInit ==
    /\ fn_pc = "called"
    /\ \E n \in 0..MaxBatches :
          fn_in \in {bs \in [1..n -> UNION {BatchDocuments(b) : b \in 1..n}] :
                        \A b \in 1..n : bs[b] \in BatchDocuments(b)}
    /\ fn_out = <<>>
    /\ api_key = "set"
    /\ GSIdle
    /\ MainIdle
    /\ PCIdle
    /\ VarIdle
    /\ VerIdle
    /\ GJIdle
    /\ TailIdle

\* Each batch is validated as TopicQuestions (llm_call.py 97); merging is
\* for batches that all passed.
TQ_Validate ==
    /\ fn_pc = "called"
    /\ fn_pc' = IF \A b \in 1..Len(fn_in) : TopicQuestionsAccepted(fn_in[b])
                THEN "validated" ELSE "rejected"
    /\ UNCHANGED <<fn_in, fn_out>>
    /\ UNCHANGED <<api_key, gsVars, mainVars, pcVars, varVars, verVars, gjVars, tailVars>>

TQ_Merge ==
    /\ fn_pc = "validated"
    /\ IF MergeRaises(fn_in)
       THEN /\ fn_pc' = "raised"
            /\ UNCHANGED fn_out
       ELSE /\ fn_out' = merge_topic_batches(fn_in)
            /\ fn_pc' = "returned"
    /\ UNCHANGED fn_in
    /\ UNCHANGED <<api_key, gsVars, mainVars, pcVars, varVars, verVars, gjVars, tailVars>>

TQNext == TQ_Validate \/ TQ_Merge

SpecTQ == TQInit /\ [][TQNext]_vars

LevelsOf(groups) == [i \in 1..Len(groups) |-> groups[i].bloom_taxonomy]

\* C20: every accepted TopicQuestions, and every merged one, has in each of
\* its four type-sequences exactly 6 groups whose bloom_taxonomy values are
\* remember, understand, apply, analyze, evaluate, create, in that order.
C20_SixBloomGroupsInOrder ==
    /\ fn_pc \in {"validated", "returned"} =>
          \A b \in 1..Len(fn_in) : \A f \in TypeFields : LevelsOf(fn_in[b][f]) = BloomLevels
    /\ fn_pc = "returned" =>
          \A f \in TypeFields : LevelsOf(fn_out[f]) = BloomLevels

\* The questions of group i of type-sequence f in the batches from k on, one
\* batch after the other.
RECURSIVE QuestionsAt(_, _, _, _)
QuestionsAt(batches, f, i, k) ==
    IF k > Len(batches) THEN <<>>
    ELSE batches[k][f][i].questions \o QuestionsAt(batches, f, i, k + 1)

\* C34: in the merged TopicQuestions the questions of group i of each of the
\* four types are those of group i of every batch, one batch after the
\* other, so that every question is still under the level it was written
\* for; a single batch is returned as it is; an empty list of batches is an
\* error.
C34_MergeConcatenatesByPosition ==
    /\ fn_pc = "returned" =>
          /\ fn_in # <<>>
          /\ DOMAIN fn_out = TypeFields
          /\ \A f \in TypeFields :
                /\ Len(fn_out[f]) = BloomGroups
                /\ \A i \in 1..BloomGroups :
                      /\ fn_out[f][i].questions = QuestionsAt(fn_in, f, i, 1)
                      /\ \A j \in 1..Len(fn_out[f][i].questions) :
                            fn_out[f][i].questions[j].level = fn_out[f][i].bloom_taxonomy
          /\ Len(fn_in) = 1 => fn_out = fn_in[1]
    /\ fn_pc = "raised" => fn_in = <<>>
    /\ (fn_in = <<>> /\ fn_pc # "called") => fn_pc \in {"validated", "raised"}

-----------------------------------------------------------------------------
\* The ChapterQuestions that process_chapter builds from its topic_questions
\* list and saves (main.py 336-346; models.py 156-162), on their own.

TopicNames == {"A", "B"}

TopicLists == UNION {[1..n -> TopicNames] : n \in 0..MaxTopics}

\* models.py 161-162: total_topics has ge=1, topics has min_length=1.
ChapterQuestionsAccepted_AnyLength(total_topics, topics) == total_topics >= 0
ChapterQuestionsAccepted(total_topics, topics) == total_topics >= 1 /\ Len(topics) >= 1

\* main.py 337-343: ChapterQuestions(total_topics=len(topic_questions),
\* topics=topic_questions), or the ValidationError it raises.
NewChapterQuestions(topic_list) ==
    IF ChapterQuestionsAccepted(Len(topic_list), topic_list)
    THEN [raised |-> FALSE, total_topics |-> Len(topic_list), topics |-> topic_list]
    ELSE [raised |-> TRUE, total_topics |-> 0, topics |-> <<>>]

\* utils.save_json (main.py 346): the file holds the dump of the object.
SavedJson(chapter_questions) ==
    [total_topics |-> chapter_questions.total_topics, topics |-> chapter_questions.topics]

CQInit ==
    /\ fn_pc = "called"
    /\ fn_in \in TopicLists
    /\ fn_out = <<>>
    /\ api_key = "set"
    /\ GSIdle
    /\ MainIdle
    /\ PCIdle
    /\ VarIdle
    /\ VerIdle
    /\ GJIdle
    /\ TailIdle

CQ_Create ==
    /\ fn_pc = "called"
    /\ LET chapter_questions == NewChapterQuestions(fn_in)
       IN  /\ fn_out' = [chapter_questions |-> chapter_questions, questions_json |-> "absent"]
           /\ fn_pc' = IF chapter_questions.raised THEN "raised" ELSE "created"
    /\ UNCHANGED fn_in
    /\ UNCHANGED <<api_key, gsVars, mainVars, pcVars, varVars, verVars, gjVars, tailVars>>

CQ_Save ==
    /\ fn_pc = "created"
    /\ fn_out' = [fn_out EXCEPT !.questions_json = SavedJson(fn_out.chapter_questions)]
    /\ fn_pc' = "saved"
    /\ UNCHANGED fn_in
    /\ UNCHANGED <<api_key, gsVars, mainVars, pcVars, varVars, verVars, gjVars, tailVars>>

CQNext == CQ_Create \/ CQ_Save

SpecCQ == CQInit /\ [][CQNext]_vars

\* C21: a ChapterQuestions that is created, and one that is written to
\* questions.json, has total_topics equal to the number of its topics, and
\* that number is at least 1.
C21_TotalTopicsIsTopicCount ==
    /\ fn_pc \in {"created", "saved"} =>
          /\ fn_out.chapter_questions.total_topics = Len(fn_out.chapter_questions.topics)
          /\ fn_out.chapter_questions.topics = fn_in
          /\ fn_out.chapter_questions.total_topics >= 1
    /\ fn_pc = "saved" =>
          /\ fn_out.questions_json.total_topics = Len(fn_out.questions_json.topics)
          /\ fn_out.questions_json.total_topics >= 1

\* C21 witness: the questions of two topics were put together and saved.
C21_Witness ==
    /\ fn_pc = "saved"
    /\ fn_in = <<"A", "B">>
    /\ fn_out.questions_json = [total_topics |-> 2, topics |-> <<"A", "B">>]

-----------------------------------------------------------------------------
\* _normalize_variation_item (variate.py 16-72), on its own.

MaxKeys == 3

\* The keys a record may have, in the order sorted() puts them: the text
\* fields, the bundled variation_N keys, the context fields, and two keys the
\* function knows nothing about.
NormKeys ==
    <<"answer", "note", "options", "prompt", "question", "reference_answer",
      "reference_points", "text", "variation", "variation_1", "variation_2",
      "variation_id", "variation_text">>

\* variate.py 25: key.startswith("variation_"), for the keys above.
HasVariationPrefix(key) ==
    key \in {"variation_1", "variation_2", "variation_id", "variation_text"}

\* variate.py 35: the text fields in the order they are tried.
TextFields == <<"question", "variation_text", "variation", "text", "prompt">>

\* The values a key may have: a string of whitespace only, a string with
\* text and spaces around it, a number, a list of three entries (a padded
\* text, a blank string, a number), a list of blank strings.
NormValues == {"blank", "text", "number", "list", "blanklist"}

ValuesOf(key) ==
    IF key \in {"options", "reference_points"} THEN {"text", "list", "blanklist"}
    ELSE {"blank", "text", "number"}

IsList(value) == value \in {"list", "blanklist"}

\* A piece of text of the result, named by the key it was taken from and by
\* what was done to it: a string value trimmed, or str() of another value.
TrimmedText(key) == [key |-> key, form |-> "trimmed"]

StrText(key) == [key |-> key, form |-> "str"]

\* str(value).strip(): <<>> stands for the empty string.
StrStripped(key, value) ==
    IF value = "blank" THEN <<>>
    ELSE IF value = "text" THEN <<TrimmedText(key)>>
    ELSE <<StrText(key)>>

\* The entries of a list value that are non-empty after str().strip():
\* the first and the third of "list", none of "blanklist".
ListEntries(key, value) ==
    IF value = "list"
    THEN <<[key |-> key, form |-> "entry 1 trimmed"], [key |-> key, form |-> "entry 3 str"]>>
    ELSE <<>>

\* The sets of at most n keys.
RECURSIVE KeySetsUpTo(_)
KeySetsUpTo(n) ==
    IF n = 0 THEN {{}}
    ELSE LET smaller == KeySetsUpTo(n - 1)
         IN  smaller \cup {S \cup {NormKeys[i]} : S \in smaller, i \in 1..Len(NormKeys)}

Records ==
    UNION { {f \in [S -> NormValues] : \A k \in S : f[k] \in ValuesOf(k)} : S \in KeySetsUpTo(MaxKeys) }

\* The items a response may hold: a string (empty, blank, with text), a
\* record, or another JSON value.
NormItems ==
    {[kind |-> "str", value |-> v, fields |-> <<>>] : v \in {"empty", "blank", "text"}}
        \cup {[kind |-> "dict", value |-> "", fields |-> f] : f \in Records}
        \cup {[kind |-> "other", value |-> v, fields |-> <<>>] : v \in {"null", "number", "list"}}

Piece(label, body) == [label |-> label, body |-> body]

\* A result string is the sequence of its pieces, which " | " joins; a
\* piece is a label ("" for none) and the texts after it, which "; " joins.
\* The empty sequence is the empty string.
Returned(pieces) == [raised |-> FALSE, pieces |-> pieces]

\* variate.py 26-30: str(value).strip() of the keys with the prefix, in
\* sorted order, the empty ones left out.
RECURSIVE BundledValues(_, _)
BundledValues(fields, i) ==
    IF i > Len(NormKeys) THEN <<>>
    ELSE (IF NormKeys[i] \in DOMAIN fields /\ HasVariationPrefix(NormKeys[i])
          THEN StrStripped(NormKeys[i], fields[NormKeys[i]])
          ELSE <<>>) \o BundledValues(fields, i + 1)

\* variate.py 32: " | ".join(values)
Joined(values) == [j \in 1..Len(values) |-> Piece("", <<values[j]>>)]

\* variate.py 35-41: the first text field whose value is a string with text.
RECURSIVE BaseText(_, _)
BaseText(fields, i) ==
    IF i > Len(TextFields) THEN <<>>
    ELSE IF TextFields[i] \in DOMAIN fields /\ fields[TextFields[i]] = "text"
         THEN <<Piece("", <<TrimmedText(TextFields[i])>>)>>
         ELSE BaseText(fields, i + 1)

\* variate.py 45-49
WithOptions(base, fields) ==
    IF "options" \in DOMAIN fields /\ IsList(fields["options"])
            /\ ListEntries("options", fields["options"]) # <<>>
    THEN Append(base, Piece("Options", ListEntries("options", fields["options"])))
    ELSE base

\* variate.py 50-52
WithAnswer(base, fields) ==
    IF "answer" \in DOMAIN fields /\ fields["answer"] = "text"
    THEN Append(base, Piece("Answer", <<TrimmedText("answer")>>))
    ELSE base

\* variate.py 44: only for the MCQ type.
WithMCQContext(base, fields, question_type) ==
    IF question_type = "MCQ" THEN WithAnswer(WithOptions(base, fields), fields) ELSE base

\* variate.py 55-59: whatever the question type.
WithKeyPoints(base, fields) ==
    IF "reference_points" \in DOMAIN fields /\ IsList(fields["reference_points"])
            /\ ListEntries("reference_points", fields["reference_points"]) # <<>>
    THEN Append(base, Piece("Key points", ListEntries("reference_points", fields["reference_points"])))
    ELSE base

\* variate.py 61-63: appended under its label, or the base itself when
\* there is none yet.
WithReferenceAnswer(base, fields) ==
    IF "reference_answer" \in DOMAIN fields /\ fields["reference_answer"] = "text"
    THEN IF base # <<>>
         THEN Append(base, Piece("Reference answer", <<TrimmedText("reference_answer")>>))
         ELSE <<Piece("", <<TrimmedText("reference_answer")>>)>>
    ELSE base

\* variate.py 69: json.dumps(item, ensure_ascii=False)
JsonDump_Empty(fields) == <<>>
JsonDump(fields) == <<Piece("JSON", <<>>)>>

\* variate.py 72: str(item).strip() of a value that is neither a string nor
\* a record ("None", a number's digits, a list's repr).
GenericFallback_Raises(item) == [raised |-> TRUE, pieces |-> <<>>]
GenericFallback(item) == Returned(<<Piece("str", <<>>)>>)

\* variate.py 23-69
NormalizeRecord(fields, question_type) ==
    LET values == BundledValues(fields, 1)
        bundled == (\E key \in DOMAIN fields : HasVariationPrefix(key)) /\ values # <<>>
        base == WithReferenceAnswer(
                    WithKeyPoints(
                        WithMCQContext(BaseText(fields, 1), fields, question_type),
                        fields),
                    fields)
    IN  IF bundled THEN Returned(Joined(values))
        ELSE IF base # <<>> THEN Returned(base)
        ELSE Returned(JsonDump(fields))

\* variate.py 16-72
normalize_variation_item(item, question_type) ==
    IF item.kind = "str"
    THEN Returned(IF item.value = "text" THEN <<Piece("", <<TrimmedText("")>>)>> ELSE <<>>)
    ELSE IF item.kind = "dict" THEN NormalizeRecord(item.fields, question_type)
    ELSE GenericFallback(item)

NormInit ==
    /\ fn_pc = "called"
    /\ fn_in \in [item : NormItems, question_type : {QuestionTypes[i] : i \in 1..Len(QuestionTypes)}]
    /\ fn_out = <<>>
    /\ api_key = "set"
    /\ GSIdle
    /\ MainIdle
    /\ PCIdle
    /\ VarIdle
    /\ VerIdle
    /\ GJIdle
    /\ TailIdle

NORM_Call ==
    /\ fn_pc = "called"
    /\ fn_out' = normalize_variation_item(fn_in.item, fn_in.question_type)
    /\ fn_pc' = "returned"
    /\ UNCHANGED fn_in
    /\ UNCHANGED <<api_key, gsVars, mainVars, pcVars, varVars, verVars, gjVars, tailVars>>

NormNext == NORM_Call

SpecNorm == NormInit /\ [][NormNext]_vars

\* ---- Claims about _normalize_variation_item ----

NormReturned == fn_pc = "returned" /\ fn_in.item.kind = "dict"

\* The fields the function's description names.
RecognizedFields ==
    {"question", "variation_text", "variation", "text", "prompt", "options", "answer",
     "reference_points", "reference_answer", "variation_1", "variation_2"}

\* The keys of the variation_N form.
NumberedVariations == {"variation_1", "variation_2"}

OnlyText(key) == <<Piece("", <<TrimmedText(key)>>)>>

\* C25: a record with a question field that holds text and no other
\* recognized field comes back as exactly the question's text, trimmed,
\* whatever the question type.
C25_QuestionOnlyRoundTrip ==
    (/\ NormReturned
     /\ "question" \in DOMAIN fn_in.item.fields
     /\ fn_in.item.fields["question"] = "text"
     /\ DOMAIN fn_in.item.fields \cap RecognizedFields = {"question"})
        => fn_out.pieces = OnlyText("question")

\* C26 as stated: no input, plain string or record, gives an empty result.
C26_NeverEmpty ==
    fn_pc = "returned" => fn_out.pieces # <<>>

\* C26 (amended): a record, a list, a number or null never gives an empty
\* result, a record with nothing usable giving its JSON rendering; a plain
\* string gives its trimmed text, which is empty when the string is blank.
C26_NeverEmptyButForBlankStrings ==
    fn_pc = "returned" =>
        /\ fn_in.item.kind # "str" => fn_out.pieces # <<>>
        /\ (/\ fn_in.item.kind = "dict"
            /\ BundledValues(fn_in.item.fields, 1) = <<>>
            /\ \A key \in DOMAIN fn_in.item.fields :
                   \/ key \notin RecognizedFields
                   \/ fn_in.item.fields[key] \in {"blank", "number", "blanklist"}
                   \/ key \in {"options", "reference_points"} /\ fn_in.item.fields[key] = "text"
                   \/ key \in {"options", "answer"} /\ fn_in.question_type # "MCQ")
               => fn_out.pieces = <<Piece("JSON", <<>>)>>
        /\ fn_in.item.kind = "str" =>
               fn_out.pieces = (IF fn_in.item.value = "text" THEN OnlyText("") ELSE <<>>)

\* A record with only a blank question came back as its JSON rendering.
C26_Witness ==
    /\ NormReturned
    /\ DOMAIN fn_in.item.fields = {"question"}
    /\ fn_in.item.fields["question"] = "blank"
    /\ fn_out.pieces = <<Piece("JSON", <<>>)>>

RECURSIVE NumberedValues(_, _)
NumberedValues(fields, i) ==
    IF i > Len(NormKeys) THEN <<>>
    ELSE (IF NormKeys[i] \in DOMAIN fields /\ NormKeys[i] \in NumberedVariations
          THEN StrStripped(NormKeys[i], fields[NormKeys[i]])
          ELSE <<>>) \o NumberedValues(fields, i + 1)

\* C28: a record with variation_N keys that hold something comes back as the
\* values of exactly those keys, trimmed, in key order, joined by the
\* separator, nothing of the other keys among them.
C28_OnlyNumberedVariationsBundled ==
    (NormReturned /\ NumberedValues(fn_in.item.fields, 1) # <<>>)
        => fn_out.pieces = Joined(NumberedValues(fn_in.item.fields, 1))

\* The first text field, in the order given, that holds text.
RECURSIVE FirstUsable(_, _, _)
FirstUsable(fields, order, i) ==
    IF i > Len(order) THEN ""
    ELSE IF order[i] \in DOMAIN fields /\ fields[order[i]] = "text" THEN order[i]
         ELSE FirstUsable(fields, order, i + 1)

PriorityOrder == <<"question", "variation_text", "variation", "text", "prompt">>

\* C29: in a record without variation_N keys the result starts with the
\* trimmed text of the first usable field in the order question,
\* variation_text, variation, text, prompt.
C29_BaseTextByPriority ==
    (/\ NormReturned
     /\ DOMAIN fn_in.item.fields \cap NumberedVariations = {}
     /\ FirstUsable(fn_in.item.fields, PriorityOrder, 1) # "")
        => /\ fn_out.pieces # <<>>
           /\ fn_out.pieces[1] =
                  Piece("", <<TrimmedText(FirstUsable(fn_in.item.fields, PriorityOrder, 1))>>)

Labels == {fn_out.pieces[j].label : j \in 1..Len(fn_out.pieces)}

\* C30: Options and Answer are appended only for the MCQ type, Key points
\* only for the long-answer type, and the reference answer is never appended
\* to a base text.
C30_ContextByQuestionType ==
    NormReturned =>
        /\ Labels \cap {"Options", "Answer"} # {} => fn_in.question_type = "MCQ"
        /\ "Key points" \in Labels => fn_in.question_type = "Long Answer"
        /\ "Reference answer" \notin Labels

-----------------------------------------------------------------------------
(***************************************************************************)
(* generate_json (llm_call.py 109-160) beside generate_structured: both    *)
(* are invoked with the same max_retries and the model gives both the same *)
(* response at each attempt.                                               *)
(***************************************************************************)
\* json.loads(response_text) (llm_call.py 152): the parsed value, whatever
\* it is, or the error.
json_loads(text) ==
    IF ParsesAsJson(text) THEN [ok |-> TRUE, cause |-> "ok", value |-> text[1]]
    ELSE [ok |-> FALSE, cause |-> "json_invalid", value |-> None]

\* A mutant of JsonAttemptResult: the response is parsed as it came.
JsonAttemptResult_Uncleaned(resp) ==
    IF resp.raises
    THEN [ok |-> FALSE, cause |-> "api_error", value |-> None]
    ELSE json_loads(Strip(resp.text))

\* The body of the try block of one attempt (llm_call.py 137-153).
JsonAttemptResult(resp) ==
    IF resp.raises
    THEN [ok |-> FALSE, cause |-> "api_error", value |-> None]
    ELSE json_loads(clean_json_response(Strip(resp.text)))

\* One iteration of the for loop of generate_json on the response the model
\* call gave (llm_call.py 136-160).
GJ_Handle(resp) ==
    LET r == JsonAttemptResult(resp)
    IN  /\ gj_log' = Append(gj_log, r)
        /\ IF r.ok
           THEN /\ gj_outcome' = "returned"
                /\ gj_result' = r.value
                /\ UNCHANGED gj_attempt
           ELSE IF ShouldRetry(gj_attempt, max_retries)
                THEN /\ gj_attempt' = gj_attempt + 1
                     /\ UNCHANGED <<gj_outcome, gj_result>>
                ELSE /\ gj_outcome' = "raised"
                     /\ UNCHANGED <<gj_attempt, gj_result>>

GSAttempting == gs_outcome = "running" /\ attempt < max_retries

GJAttempting == gj_outcome = "running" /\ gj_attempt < max_retries

\* Both invocations are called with the same retry budget.
GJInit ==
    /\ GSInit
    /\ gj_attempt = 0
    /\ gj_log = <<>>
    /\ gj_outcome = "running"
    /\ gj_result = None
    /\ api_key = "set"
    /\ MainIdle
    /\ PCIdle
    /\ VarIdle
    /\ FnIdle
    /\ VerIdle
    /\ TailIdle

\* The next response of the model, handled by each invocation that is still
\* in its loop.
GJ_Attempt ==
    /\ GSAttempting \/ GJAttempting
    /\ \E resp \in Responses :
         /\ IF GSAttempting THEN GS_Handle(resp) ELSE UNCHANGED gsVars
         /\ IF GJAttempting THEN GJ_Handle(resp) ELSE UNCHANGED gjVars
    /\ UNCHANGED <<api_key, mainVars, pcVars, varVars, fnVars, verVars, tailVars>>

\* range(max_retries) is empty: both loops end at once and both functions
\* return None.
GJ_FallThrough ==
    /\ gs_outcome = "running"
    /\ gj_outcome = "running"
    /\ attempt >= max_retries
    /\ gj_attempt >= max_retries
    /\ gs_outcome' = "returned"
    /\ gs_result' = None
    /\ gj_outcome' = "returned"
    /\ gj_result' = None
    /\ UNCHANGED <<max_retries, attempt, gs_log, gs_last, gs_error, gj_attempt, gj_log>>
    /\ UNCHANGED <<api_key, mainVars, pcVars, varVars, fnVars, verVars, tailVars>>

GJNext == GJ_Attempt \/ GJ_FallThrough

SpecGJ == GJInit /\ [][GJNext]_vars

\* Every response so far that parsed was valid against the schema too.
ParseableIsValid == \A i \in 1..Len(gs_log) : gs_log[i].cause # "schema_invalid"

\* C31: on the same responses, every parseable one of them schema-valid,
\* generate_json and generate_structured issue the same number of model
\* calls, at most max_retries, succeed on the same attempt or both raise
\* after the last one, and return the same parsed value; and whatever
\* generate_json returns from a response is the parsed value, of any kind,
\* not validated.
C31_SameRetryContract ==
    /\ ParseableIsValid =>
          /\ Len(gj_log) = Len(gs_log)
          /\ Len(gj_log) <= max_retries
          /\ gj_outcome = gs_outcome
          /\ \A i \in 1..Len(gj_log) : gj_log[i].ok = gs_log[i].ok
          /\ gj_result = gs_result
          /\ gj_outcome = "raised" => Len(gj_log) = max_retries
    /\ (gj_outcome = "returned" /\ gj_log # <<>>) =>
          /\ gj_log[Len(gj_log)].ok
          /\ gj_result = gj_log[Len(gj_log)].value
          /\ gj_result \in {"Ja", "Jb", "Js"}
          /\ \A i \in 1..(Len(gj_log) - 1) : ~gj_log[i].ok

\* Both succeeded on the second of three attempts, on a fenced response.
C31_Witness ==
    /\ max_retries = 3
    /\ ParseableIsValid
    /\ Len(gs_log) = 2
    /\ gs_log[1].cause = "json_invalid"
    /\ gs_outcome = "returned"
    /\ gj_outcome = "returned"
    /\ gs_last.text = <<"TICKS", "Ja", "TICKS">>
    /\ gj_result = "Ja"

-----------------------------------------------------------------------------
\* LLMClient._clean_json_response (llm_call.py 162-189), on its own.

MaxCleanLen == 4

CleanTexts == UNION {[1..n -> Tokens] : n \in 0..MaxCleanLen}

CleanInit ==
    /\ fn_pc = "called"
    /\ fn_in \in CleanTexts
    /\ fn_out = <<>>
    /\ api_key = "set"
    /\ GSIdle
    /\ MainIdle
    /\ PCIdle
    /\ VarIdle
    /\ VerIdle
    /\ GJIdle
    /\ TailIdle

CLEAN_Call ==
    /\ fn_pc = "called"
    /\ fn_out' = clean_json_response(fn_in)
    /\ fn_pc' = "returned"
    /\ UNCHANGED fn_in
    /\ UNCHANGED <<api_key, gsVars, mainVars, pcVars, varVars, verVars, gjVars, tailVars>>

CleanNext == CLEAN_Call

SpecClean == CleanInit /\ [][CleanNext]_vars

IsContent(t) == t \notin (Whitespace \cup {"CTL"})

\* The characters of a text that are neither whitespace nor control
\* characters, in their order.
Content(s) == SelectSeq(s, IsContent)

\* The result is a stretch of the input, its control characters turned into
\* spaces; it holds no control character and no whitespace at its ends.
CleanStretch ==
    /\ \A i \in 1..Len(fn_out) : fn_out[i] # "CTL"
    /\ fn_out # <<>> => (fn_out[1] \notin Whitespace /\ fn_out[Len(fn_out)] \notin Whitespace)
    /\ \E k \in 0..Len(fn_in) :
          /\ k + Len(fn_out) <= Len(fn_in)
          /\ \A i \in 1..Len(fn_out) :
                fn_out[i] = (IF fn_in[k + i] = "CTL" THEN "SP" ELSE fn_in[k + i])

\* A text without the fence it begins with and the fence it ends with.
WithoutOuterFences(s) ==
    LET t1 == IF StartsWith(s, <<"TICKS", "JSONW">>) THEN Drop(s, 2)
              ELSE IF StartsWith(s, <<"TICKS">>) THEN Drop(s, 1)
              ELSE s
    IN  IF EndsWith(t1, <<"TICKS">>) THEN SubSeq(t1, 1, Len(t1) - 1) ELSE t1

\* A text without the ```json it begins with, then without the ``` it
\* begins with, then without the ``` it ends with.
WithoutFences(s) ==
    LET t1 == IF StartsWith(s, <<"TICKS", "JSONW">>) THEN Drop(s, 2) ELSE s
        t2 == IF StartsWith(t1, <<"TICKS">>) THEN Drop(t1, 1) ELSE t1
    IN  IF EndsWith(t2, <<"TICKS">>) THEN SubSeq(t2, 1, Len(t2) - 1) ELSE t2

\* C36 as stated: the result has no control character and no whitespace at
\* its ends, the leading fence and the trailing fence of the input are gone,
\* and every other character of the input is kept, in order.
C36_CleanKeepsAllButFences ==
    fn_pc = "returned" =>
        /\ CleanStretch
        /\ Content(fn_out) = Content(WithoutOuterFences(fn_in))

\* C36 (amended): the result has no control character and no whitespace at
\* its ends; a leading ```json, then a leading ```, then a trailing ```
\* are gone, each if the text has it at that point; every control character
\* left has become a space; every other character is kept, in order.
C36_CleanKeepsAllButFencesInTurn ==
    fn_pc = "returned" =>
        /\ CleanStretch
        /\ Content(fn_out) = Content(WithoutFences(fn_in))
        /\ Len(fn_out) <= Len(WithoutFences(fn_in))

\* C36 witness: a fenced document with a control character in front of it
\* came back as the document alone.
C36_Witness ==
    /\ fn_pc = "returned"
    /\ fn_in = <<"TICKS", "JSONW", "CTL", "Ja">>
    /\ fn_out = <<"Ja">>

-----------------------------------------------------------------------------
\* Termination and the call budget of process_chapter, under LiveSpec.

\* max_retries of generate_structured and generate_json when the caller
\* passes none (llm_call.py 38, 114); no caller passes one.
DefaultMaxRetries == 3

\* The invocations one process_chapter may issue: ceil(n / 2) per topic to
\* generate, one per topic to verify, one per question (4 types, 6 levels,
\* n questions each) to vary.
InvocationBudget ==
    topics_list * NumBatches(questions_per_level)
        + topics_list
        + topics_list * Len(QuestionTypes) * BloomGroups * questions_per_level

\* How an invocation that has ended came out.
TerminalOutcome ==
    IF pc = "returned" /\ pc_result = "True"
    THEN (IF qfile_at_entry # "absent" THEN "skipped" ELSE "complete")
    ELSE "failed"

-----------------------------------------------------------------------------
(***************************************************************************)
(* process_chapter from the end of the Generation Stage on (main.py        *)
(* 336-420), given a topic_questions list with one entry per topic.  Each  *)
(* file write either succeeds or raises; each stage returns or raises.     *)
(***************************************************************************)
\* A mutant of SavesAfterVariation: the final save is made whatever became
\* of the Variation Stage.
SavesAfterVariation_Always(outcome) == TRUE

\* main.py 391-398: the final save_json follows the call of
\* add_variations_to_chapter inside the same try block.
SavesAfterVariation(outcome) == outcome = "returned"

IO == {"ok", "raises"}

TailInit ==
    /\ tl_pc = "save"
    /\ tl_topics \in 1..MaxTopics
    /\ tl_events = <<>>
    /\ tl_qfile = "absent"
    /\ tl_variation = "none"
    /\ api_key = "set"
    /\ GSIdle
    /\ MainIdle
    /\ PCIdle
    /\ VarIdle
    /\ FnIdle
    /\ VerIdle
    /\ GJIdle

\* main.py 336-358: the ChapterQuestions is built, saved as questions.json
\* and backed up.  An exception here leaves process_chapter.
TL_SaveInitial ==
    /\ tl_pc = "save"
    /\ \E save \in IO, backup \in IO :
         IF save = "raises"
         THEN /\ tl_pc' = "raised"
              /\ tl_qfile' \in {"absent", "partial"}
              /\ UNCHANGED tl_events
         ELSE /\ tl_qfile' = "generated"
              /\ IF backup = "raises"
                 THEN /\ tl_pc' = "raised"
                      /\ tl_events' = Append(tl_events, "questions.json")
                 ELSE /\ tl_pc' = "verify"
                      /\ tl_events' = tl_events \o <<"questions.json", "backup generated">>
    /\ UNCHANGED <<tl_topics, tl_variation>>
    /\ UNCHANGED <<api_key, gsVars, mainVars, pcVars, varVars, fnVars, verVars, gjVars>>

\* main.py 360-385: the Verification Stage, its report and its backup; an
\* exception of any of them is caught and the function goes on.
TL_Verify ==
    /\ tl_pc = "verify"
    /\ \E calls \in {"ok", "raises", "raises at once"}, report \in IO, backup \in IO :
         tl_events' =
             tl_events
                 \o (IF calls # "raises at once" THEN <<"verification calls">> ELSE <<>>)
                 \o (IF calls = "ok" /\ report = "ok"
                     THEN <<"verification_report.json">> ELSE <<>>)
                 \o (IF calls = "ok" /\ report = "ok" /\ backup = "ok"
                     THEN <<"backup verified">> ELSE <<>>)
    /\ tl_pc' = "vary"
    /\ UNCHANGED <<tl_topics, tl_qfile, tl_variation>>
    /\ UNCHANGED <<api_key, gsVars, mainVars, pcVars, varVars, fnVars, verVars, gjVars>>

\* main.py 387-414: the Variation Stage, the final save and its backup; an
\* exception of any of them is caught.
TL_Vary ==
    /\ tl_pc = "vary"
    /\ \E outcome \in {"returned", "raised"}, save \in IO, backup \in IO :
         /\ tl_variation' = outcome
         /\ IF ~SavesAfterVariation(outcome)
            THEN /\ tl_events' = Append(tl_events, "variation calls")
                 /\ UNCHANGED tl_qfile
            ELSE IF save = "raises"
                 THEN /\ tl_events' = Append(tl_events, "variation calls")
                      /\ tl_qfile' \in {"generated", "partial"}
                 ELSE /\ tl_qfile' = "content"
                      /\ tl_events' =
                             tl_events \o <<"variation calls", "questions.json">>
                                 \o (IF backup = "ok" THEN <<"backup varied">> ELSE <<>>)
    /\ tl_pc' = "end"
    /\ UNCHANGED tl_topics
    /\ UNCHANGED <<api_key, gsVars, mainVars, pcVars, varVars, fnVars, verVars, gjVars>>

\* main.py 416-420
TL_Return ==
    /\ tl_pc = "end"
    /\ tl_pc' = "returned"
    /\ UNCHANGED <<tl_topics, tl_events, tl_qfile, tl_variation>>
    /\ UNCHANGED <<api_key, gsVars, mainVars, pcVars, varVars, fnVars, verVars, gjVars>>

TailNext == TL_SaveInitial \/ TL_Verify \/ TL_Vary \/ TL_Return

SpecTail == TailInit /\ [][TailNext]_vars

\* The positions in the log at which something of the kind e was done.
EventsAt(e) == {i \in 1..Len(tl_events) : tl_events[i] = e}

\* C38: questions.json is written at two points only, first thing after
\* generation, before any verification call, and after the Variation Stage
\* has returned; when the Variation Stage raises there is no second write
\* and the file holds what was written after generation; the generated and
\* the varied backup each come right after the write of questions.json they
\* belong to.
C38_QuestionsFileWrittenTwice ==
    /\ Cardinality(EventsAt("questions.json")) <= 2
    /\ \A i \in EventsAt("questions.json") :
          \/ i = 1
          \/ i > 1 /\ tl_events[i - 1] = "variation calls" /\ tl_variation = "returned"
    /\ \A i \in EventsAt("verification calls") : 1 \in EventsAt("questions.json") /\ i > 1
    /\ tl_variation = "raised" =>
          /\ EventsAt("questions.json") = {1}
          /\ tl_qfile = "generated"
    /\ \A i \in EventsAt("backup generated") : i = 2 /\ tl_events[1] = "questions.json"
    /\ \A i \in EventsAt("backup varied") :
          i > 2 /\ tl_events[i - 1] = "questions.json" /\ tl_events[i - 2] = "variation calls"
    /\ (tl_pc = "returned" /\ tl_qfile = "content") =>
          Cardinality(EventsAt("questions.json")) = 2

\* C38 witness: verification failed, the Variation Stage raised, and the
\* function returned with questions.json as it was saved after generation.
C38_Witness ==
    /\ tl_pc = "returned"
    /\ tl_variation = "raised"
    /\ tl_events = <<"questions.json", "backup generated", "variation calls">>
    /\ tl_qfile = "generated"

-----------------------------------------------------------------------------
\* Sequential execution of main and process_chapter, under Spec.

\* A step of the current process_chapter invocation.
ChapterStep == pc # "idle" /\ pcVars' # pcVars /\ invoked' = invoked

\* C39: one chapter is processed at a time, in the order of the list: the
\* next chapter is entered only when the one before has ended and main has
\* taken its outcome; every step of process_chapter, its model calls and
\* file writes among them, belongs to the chapter entered last; the topics
\* of a chapter are taken one after another; at most one model call is
\* waited for.
C39_StrictlySequential ==
    [][/\ invoked' # invoked =>
             /\ pc = "idle"
             /\ Len(outcomes) = Len(invoked)
             /\ invoked' = Append(invoked, chapters[Len(invoked) + 1])
       /\ ChapterStep =>
             /\ Len(outcomes) = Len(invoked) - 1
             /\ Len(outcomes') <= Len(invoked)
             /\ idx = Len(invoked)
       /\ (model_calls' # model_calls \/ file_writes' # file_writes) =>
             (invoked' # invoked \/ ChapterStep)
       /\ topic_idx' # topic_idx =>
             (topic_idx' = topic_idx + 1 \/ (invoked' # invoked /\ topic_idx' = 0))
       /\ pc' = "model_call" => pc # "model_call"]_vars

\* C39 witness: the second chapter has ended at its first topic, the first
\* one having ended and been counted before it was entered.
C39_Witness ==
    /\ Len(invoked) = 2
    /\ outcomes = <<"False">>
    /\ failed = 1
    /\ pc = "returned"
    /\ topic_idx = 1

=============================================================================
